---- MODULE Spec2Model ----
(***************************************************************************)
(* Model of the streaming code-generation and incremental-diff pipeline    *)
(* of spin-ai-v2: the POST handler of src/app/api/anthropic/route.ts, its  *)
(* change-set reconciler and its conversation store.                       *)
(***************************************************************************)
EXTENDS Integers, Sequences, FiniteSets, TLC

(***************************************************************************)
(* Bounds of the model.                                                    *)
(***************************************************************************)
\* number of request slots: the requests that can be in flight together
NumReqs == 1
\* number of requests received over a run
MaxRequests == 2
\* number of text deltas the provider streams for one request
MaxDeltas == 1
\* number of distinct file paths
NumPaths == 2
\* number of distinct non-empty file contents (the empty string is always there)
NumContents == 2
\* number of distinct file contents among the existingFiles a client sends
NumClientContents == 1

PathNames == <<"/a.js", "/b.js", "/c.js", "/d.js">>
ContentNames == <<"X", "Y", "Z", "W">>

Paths == {PathNames[i] : i \in 1..NumPaths}
NonEmptyContents == {ContentNames[i] : i \in 1..NumContents}
\* file contents are arbitrary strings, the empty string included
Contents == {""} \cup NonEmptyContents

Reqs == 1..NumReqs
\* userId defaults to "anonymous"
Users == {"anonymous", "u1"}

\* the value of a property that is absent from a JavaScript object; it is no
\* file content
Undefined == "<undefined>"

(***************************************************************************)
(* FileState: a JavaScript object { [path]: content }.  An object keeps    *)
(* its keys in insertion order, so it is the sequence of its entries, no   *)
(* path twice.                                                             *)
(***************************************************************************)
Entry(p, c) == [path |-> p, content |-> c]

NoDupPaths(f) == \A i, j \in 1..Len(f) : i # j => f[i].path # f[j].path

FileStatesOver(P, C) ==
    {f \in UNION {[1..n -> [path : P, content : C]] : n \in 0..Cardinality(P)} :
        NoDupPaths(f)}

FileStates == FileStatesOver(Paths, Contents)

EmptyFiles == << >>

\* Object.keys(f)
Keys(f) == [i \in 1..Len(f) |-> f[i].path]

KeySet(f) == {f[i].path : i \in 1..Len(f)}

\* f[p]: the content, or undefined when f has no such key
Get(f, p) ==
    IF p \in KeySet(f)
    THEN f[CHOOSE i \in 1..Len(f) : f[i].path = p].content
    ELSE Undefined

\* f[p] = c: an existing key keeps its position, a new key goes last
Assign(f, p, c) ==
    IF p \in KeySet(f)
    THEN [i \in 1..Len(f) |-> IF f[i].path = p THEN Entry(p, c) ELSE f[i]]
    ELSE Append(f, Entry(p, c))

RECURSIVE Spread(_, _)
\* { ...a, ...b }
Spread(a, b) ==
    IF b = << >> THEN a
    ELSE Spread(Assign(a, Head(b).path, Head(b).content), Tail(b))

\* JavaScript truthiness of a string-or-undefined value
Truthy(v) == v # Undefined /\ v # ""

(***************************************************************************)
(* detectFileChanges                                                       *)
(***************************************************************************)
FileChange(p, s, prev) == [path |-> p, status |-> s, previousContent |-> prev]

\* new Set([...Object.keys(previousFiles), ...Object.keys(newFiles)]) in
\* iteration order
AllPaths(previousFiles, newFiles) ==
    Keys(previousFiles) \o
        SelectSeq(Keys(newFiles), LAMBDA p : p \notin KeySet(previousFiles))

\* the mutant of ClassifyPath that leaves out the last branch
ClassifyPathNoUpdated(previousFiles, newFiles, path) ==
    LET prevContent == Get(previousFiles, path)
        newContent == Get(newFiles, path)
    IN  IF ~Truthy(prevContent) /\ Truthy(newContent)
        THEN <<FileChange(path, "new", Undefined)>>
        ELSE IF Truthy(prevContent) /\ ~Truthy(newContent)
        THEN <<FileChange(path, "deleted", prevContent)>>
        ELSE << >>

\* the body of the loop: the entries pushed for one path
ClassifyPath(previousFiles, newFiles, path) ==
    LET prevContent == Get(previousFiles, path)
        newContent == Get(newFiles, path)
    IN  IF ~Truthy(prevContent) /\ Truthy(newContent)
        THEN <<FileChange(path, "new", Undefined)>>
        ELSE IF Truthy(prevContent) /\ ~Truthy(newContent)
        THEN <<FileChange(path, "deleted", prevContent)>>
        ELSE IF prevContent # newContent
        THEN <<FileChange(path, "updated", prevContent)>>
        ELSE << >>

RECURSIVE ChangesFor(_, _, _)
ChangesFor(previousFiles, newFiles, paths) ==
    IF paths = << >> THEN << >>
    ELSE ClassifyPath(previousFiles, newFiles, Head(paths))
            \o ChangesFor(previousFiles, newFiles, Tail(paths))

detectFileChanges(previousFiles, newFiles) ==
    ChangesFor(previousFiles, newFiles, AllPaths(previousFiles, newFiles))

\* the entries of a change list that are about path p
EntriesFor(changes, p) == SelectSeq(changes, LAMBDA c : c.path = p)

(***************************************************************************)
(* State of the server: the conversation store and, per request slot, the  *)
(* locals of one run of POST and of its streaming task.                    *)
(***************************************************************************)
VARIABLES
    store,          \* the Conversation collection; a document's _id is its index
    apiKey,         \* process.env.ANTHROPIC_API_KEY is set
    started,        \* number of requests received so far
    pc,             \* where each request stands (the await it is suspended at)
    body,           \* the request body
    conversation,   \* the document POST holds (findById / new Conversation)
    stream,         \* the ReadableStream of createStreamingResponse
    events,         \* the events enqueued on the stream, in order
    task,           \* the asynchronous streaming task
    response,       \* the NextResponse POST returned
    deltas,         \* number of content_block_delta frames read
    files,          \* newFiles, previousFiles, fullFileState, fileChanges
    fileIdx,        \* number of file events sent
    saved,          \* outcome of conversation.save()
    dPrev,          \* reconciler on its own: previousFiles
    dNew,           \* reconciler on its own: newFiles
    dChanges,       \* reconciler on its own: the result
    dDone,          \* reconciler on its own: detectFileChanges has returned
    stopReason,     \* per request: the stop_reason the provider reported
    rPc,            \* fetchWithRetry: the await it is suspended at, or its end
    rAttempt,       \* fetchWithRetry: attempt
    rBackoff,       \* fetchWithRetry: backoff
    rOutcomes,      \* fetchWithRetry: what each fetch so far came to
    rWaits,         \* fetchWithRetry: the delays handed to setTimeout, in order
    xFrom,          \* extractAndParseJSON: the file state the text serialises
    xText,          \* extractAndParseJSON: responseText, a sequence of characters
    xOut,           \* extractAndParseJSON: what the call returned or threw
    mFiles,             \* MultiFileStreamingDisplay: the files prop (the page's generatedFiles)
    mounted,            \* MultiFileStreamingDisplay: an instance is mounted
    displayedFiles,     \* MultiFileStreamingDisplay: displayedFiles
    currentFileIndex,   \* MultiFileStreamingDisplay: currentFileIndex
    currentCharIndex,   \* MultiFileStreamingDisplay: currentCharIndex
    isComplete,         \* MultiFileStreamingDisplay: isComplete
    hasNavigatedRef,    \* MultiFileStreamingDisplay: hasNavigatedRef.current
    streamingTimer,     \* MultiFileStreamingDisplay: the pending reveal timer and its closure
    filesString,        \* MultiFileStreamingDisplay: the files the reset effect last ran for
    needsRender,        \* MultiFileStreamingDisplay: a render is scheduled
    onAllFilesComplete, \* MultiFileStreamingDisplay: identity of the callback prop
    ticks,              \* reveal timer callbacks run since the files were last set
    changes,            \* changes of the files prop under the mounted instance
    fired,              \* one record per call of onAllFilesComplete
    pushes,             \* calls of router.push("/workspace")
    navTimers,          \* StreamingPage: pending timeouts of handleAllFilesComplete
    sseRest,            \* StreamingPage: file events of the stream not yet received
    left,               \* StreamingPage: the navigation has unmounted the page
    consumer,       \* stream consumer: "page" (handleStreamingGenerate) or "workspace" (handleChatSubmit)
    cPc,            \* stream consumer: reading the stream, or returned
    cRest,          \* stream consumer: the events of the response not yet read
    delivered,      \* stream consumer: the events read so far
    workingFiles,   \* generatedFiles of the page, files of the workspace
    streamedFiles,  \* workspace: streamedFiles
    baseline,       \* sessionStorage item generatedFiles
    errorMessage,   \* error of the page, chatError of the workspace
    isGenerating,   \* isGenerating of the page, isChatGenerating of the workspace
    isStreaming,    \* workspace: isStreaming
    cUnmounted,     \* stream consumer: its component has been unmounted
    cLocked,        \* stream consumer: the reader holds the lock of response.body
    cLate,          \* stream consumer: events the read loop handled after the unmount
    cached,         \* connectMongo: the cache object (conn, promise)
    connects,       \* connectMongo: the promise of each call of mongoose.connect so far
    mPc,            \* connectMongo: where each call stands
    mConn,          \* connectMongo: the promise a call awaits, then what it returned
    gStore,         \* GET: the Conversation collection, each document with its userId and updatedAt
    gUserId,        \* GET: the query parameter userId
    gConversationId, \* GET: the query parameter conversationId
    gResponse,      \* GET: the response
    sPhase,         \* session: the page the browser shows and what it waits for
    sItems,         \* session: the sessionStorage items generatedFiles and conversationId
    wConversationId, \* workspace: conversationId
    sStore,         \* session: the Conversation collection, each document with its userId and number of turns
    sProject,       \* session: the project at hand and the conversation its initial generation created
    sEvent,         \* session: the last event of the stream in flight
    sSent,          \* session: the conversationId of each follow-up request, with the project's conversation
    kReader,        \* read loop: of the streaming task (server), of the streaming page or of the workspace
    kFrames,        \* read loop: the frames the sender wrote to the stream
    kStream,        \* read loop: the characters of the stream
    kPos,           \* read loop: number of characters read so far
    kBuffer,        \* read loop: buffer of the workspace
    fullResponse,   \* streaming task: fullResponse
    kOut,           \* read loop: the progress events sent (server), the events handled (clients)
    kDone,          \* read loop: reader.read() has reported done
    kCut,           \* read loop: some chunk so far ended inside a line
    tMounted,       \* timers: the display is mounted
    tEpoch,         \* timers: number of session resets so far
    tPending,       \* timers: the timeouts that are set and have neither fired nor been cleared
    tStreamingRef,  \* timers: streamingTimerRef.current, 0 for null
    tCopyRef,       \* timers: copyTimerRef.current, 0 for null
    tNextId,        \* timers: the id the next setTimeout returns
    tCursor,        \* timers: currentCharIndex, counted over the files of the session
    tNeedsRender,   \* timers: a render is scheduled
    tCopying,       \* timers: calls of copyToClipboard that await writeText
    tTicked,        \* timers: the cursor states a reveal tick has run for
    tDouble,        \* timers: a reveal tick has run for a cursor state a second time
    tLate,          \* timers: timeouts that fired after the teardown
    pStore,         \* persistence: the Conversation collection
    pReq,           \* persistence: per request slot, the request at hand and the document it holds
    pCount,         \* persistence: number of requests received so far
    pSupplied,      \* persistence: the conversations written by a request that supplied existingFiles
    pageMounted,    \* start: the streaming page is mounted
    searchParams,   \* start: the prompt and uploadedFiles search parameters
    sessionItems,   \* start: currentPrompt and currentUploadedFiles of sessionStorage
    effectPending,  \* start: the start effect is scheduled to run
    generationStartedRef, \* start: generationStartedRef.current
    pageState,      \* start: prompt, uploadedFiles, error and isGenerating of the page
    fetchStarts,    \* start: generation requests started since the page was mounted
    effectRuns,     \* start: runs of the start effect since the page was mounted
    startRequest,   \* start: the body of the generation request the page sent
    pageChanges     \* start: changes of the search parameters and of sessionStorage so far

serverVars == <<store, apiKey, started, pc, body, conversation, stream, events,
                task, response, deltas, files, fileIdx, saved, stopReason>>
diffVars == <<dPrev, dNew, dChanges, dDone>>
retryVars == <<rPc, rAttempt, rBackoff, rOutcomes, rWaits>>
extractVars == <<xFrom, xText, xOut>>
revealVars == <<mFiles, mounted, displayedFiles, currentFileIndex,
                currentCharIndex, isComplete, hasNavigatedRef, streamingTimer,
                filesString, needsRender, onAllFilesComplete, ticks, changes,
                fired, pushes, navTimers, sseRest, left>>
clientVars == <<consumer, cPc, cRest, delivered, workingFiles, streamedFiles,
                baseline, errorMessage, isGenerating, isStreaming,
                cUnmounted, cLocked, cLate>>
mongoVars == <<cached, connects, mPc, mConn>>
getVars == <<gStore, gUserId, gConversationId, gResponse>>
sessionVars == <<sPhase, sItems, wConversationId, sStore, sProject, sEvent,
                 sSent>>
chunkVars == <<kReader, kFrames, kStream, kPos, kBuffer, fullResponse, kOut,
               kDone, kCut>>
timerVars == <<tMounted, tEpoch, tPending, tStreamingRef, tCopyRef, tNextId,
               tCursor, tNeedsRender, tCopying, tTicked, tDouble, tLate>>
\* what each part leaves alone
persistVars == <<pStore, pReq, pCount, pSupplied>>
startVars == <<pageMounted, searchParams, sessionItems, effectPending,
               generationStartedRef, pageState, fetchStarts, effectRuns,
               startRequest, pageChanges>>
nonServerVars == <<diffVars, retryVars, extractVars, revealVars, clientVars,
                   mongoVars, getVars, sessionVars, chunkVars, timerVars,
                   persistVars, startVars>>
nonDiffVars == <<serverVars, retryVars, extractVars, revealVars, clientVars,
                 mongoVars, getVars, sessionVars, chunkVars, timerVars,
                 persistVars, startVars>>
nonRetryVars == <<serverVars, diffVars, extractVars, revealVars, clientVars,
                  mongoVars, getVars, sessionVars, chunkVars, timerVars,
                  persistVars, startVars>>
nonExtractVars == <<serverVars, diffVars, retryVars, revealVars, clientVars,
                    mongoVars, getVars, sessionVars, chunkVars, timerVars,
                    persistVars, startVars>>
nonRevealVars == <<serverVars, diffVars, retryVars, extractVars, clientVars,
                   mongoVars, getVars, sessionVars, chunkVars, timerVars,
                   persistVars, startVars>>
nonClientVars == <<serverVars, diffVars, retryVars, extractVars, revealVars,
                   mongoVars, getVars, sessionVars, chunkVars, timerVars,
                   persistVars, startVars>>
nonMongoVars == <<serverVars, diffVars, retryVars, extractVars, revealVars,
                  clientVars, getVars, sessionVars, chunkVars, timerVars,
                  persistVars, startVars>>
nonGetVars == <<serverVars, diffVars, retryVars, extractVars, revealVars,
                clientVars, mongoVars, sessionVars, chunkVars, timerVars,
                persistVars, startVars>>
nonSessionVars == <<serverVars, diffVars, retryVars, extractVars, revealVars,
                    clientVars, mongoVars, getVars, chunkVars, timerVars,
                    persistVars, startVars>>
nonChunkVars == <<serverVars, diffVars, retryVars, extractVars, revealVars,
                  clientVars, mongoVars, getVars, sessionVars, timerVars,
                  persistVars, startVars>>
nonTimerVars == <<serverVars, diffVars, retryVars, extractVars, revealVars,
                  clientVars, mongoVars, getVars, sessionVars, chunkVars,
                  persistVars, startVars>>
nonPersistVars == <<serverVars, diffVars, retryVars, extractVars, revealVars,
                    clientVars, mongoVars, getVars, sessionVars, chunkVars,
                    timerVars, startVars>>
nonStartVars == <<serverVars, diffVars, retryVars, extractVars, revealVars,
                  clientVars, mongoVars, getVars, sessionVars, chunkVars,
                  timerVars, persistVars>>
vars == <<serverVars, diffVars, retryVars, extractVars, revealVars,
          clientVars, mongoVars, getVars, sessionVars, chunkVars, timerVars,
          persistVars, startVars>>

PathIndex(p) == CHOOSE i \in 1..Len(PathNames) : PathNames[i] = p

\* the existingFiles a client sends: its paths in ascending order
ClientFileStates ==
    {f \in FileStatesOver(Paths, {ContentNames[i] : i \in 1..NumClientContents}) :
        \A i, j \in 1..Len(f) : i < j => PathIndex(f[i].path) < PathIndex(f[j].path)}

\* the file states the provider's answer can hold once extracted: never
\* empty, the keys in any order
ProviderFileStates == FileStatesOver(Paths, NonEmptyContents) \ {EmptyFiles}

NoBody == [hasPrompt |-> FALSE, hasUploads |-> FALSE, streaming |-> FALSE,
           userId |-> "anonymous", conversationId |-> 0,
           isIterativeUpdate |-> FALSE,
           existingFiles |-> [given |-> FALSE, files |-> EmptyFiles]]
NoConversation == [found |-> FALSE, id |-> 0, currentFiles |-> EmptyFiles]
NoFiles == [newFiles |-> EmptyFiles, previousFiles |-> EmptyFiles,
            fullFileState |-> EmptyFiles, fileChanges |-> << >>]
NoResponse == [status |-> 0]

\* a conversationId that is no ObjectId, such as "conv_123": the schema
\* declares no _id, so _id is an ObjectId and findById casts its argument
MalformedId == -1

\* the request bodies POST can receive; conversationId 0 is an absent id and
\* Len(store) + 1 an id that names no document; uploaded files are only read
\* by the validation, so they come with the requests that have no prompt,
\* and an id is only read when isIterativeUpdate is set, so the malformed
\* one comes with the iterative updates
Bodies ==
    {b \in [hasPrompt : BOOLEAN, hasUploads : BOOLEAN, streaming : BOOLEAN,
             userId : Users,
             conversationId : 0..(Len(store) + 1) \cup {MalformedId},
             isIterativeUpdate : BOOLEAN,
             existingFiles : {[given |-> FALSE, files |-> EmptyFiles]}
                \cup [given : {TRUE}, files : ClientFileStates]] :
        /\ ~(b.hasPrompt /\ b.hasUploads)
        /\ b.conversationId = MalformedId => b.isIterativeUpdate}

ServerInit ==
    /\ store = << >>
    /\ apiKey \in BOOLEAN
    /\ started = 0
    /\ pc = [r \in Reqs |-> "idle"]
    /\ body = [r \in Reqs |-> NoBody]
    /\ conversation = [r \in Reqs |-> NoConversation]
    /\ stream = [r \in Reqs |-> "none"]
    /\ events = [r \in Reqs |-> << >>]
    /\ task = [r \in Reqs |-> "none"]
    /\ response = [r \in Reqs |-> NoResponse]
    /\ deltas = [r \in Reqs |-> 0]
    /\ files = [r \in Reqs |-> NoFiles]
    /\ fileIdx = [r \in Reqs |-> 0]
    /\ saved = [r \in Reqs |-> "none"]
    /\ stopReason = [r \in Reqs |-> "none"]

DiffIdle ==
    /\ dPrev = EmptyFiles
    /\ dNew = EmptyFiles
    /\ dChanges = << >>
    /\ dDone = FALSE

RetryIdle ==
    /\ rPc = "idle"
    /\ rAttempt = 0
    /\ rBackoff = 0
    /\ rOutcomes = << >>
    /\ rWaits = << >>

ExtractIdle ==
    /\ xFrom = << >>
    /\ xText = << >>
    /\ xOut = [kind |-> "idle", files |-> << >>]

NoTimer == [set |-> FALSE, fileName |-> Undefined, content |-> << >>,
            charIndex |-> 0]

\* no instance of MultiFileStreamingDisplay has been mounted
Unmounted ==
    /\ mounted = FALSE
    /\ displayedFiles = << >>
    /\ currentFileIndex = 0
    /\ currentCharIndex = 0
    /\ isComplete = FALSE
    /\ hasNavigatedRef = FALSE
    /\ streamingTimer = NoTimer
    /\ filesString = << >>
    /\ needsRender = FALSE
    /\ onAllFilesComplete = 0
    /\ ticks = 0
    /\ changes = 0
    /\ fired = << >>
    /\ pushes = 0
    /\ navTimers = 0
    /\ left = FALSE

RevealIdle ==
    /\ mFiles = << >>
    /\ sseRest = << >>
    /\ Unmounted

\* sessionStorage.getItem("generatedFiles") === null
NoBaseline == [set |-> FALSE, files |-> << >>]

ClientIdle ==
    /\ consumer = "none"
    /\ cPc = "idle"
    /\ cRest = << >>
    /\ delivered = << >>
    /\ workingFiles = << >>
    /\ streamedFiles = << >>
    /\ baseline = NoBaseline
    /\ errorMessage = ""
    /\ isGenerating = FALSE
    /\ isStreaming = FALSE
    /\ cUnmounted = FALSE
    /\ cLocked = FALSE
    /\ cLate = 0

\* number of concurrent calls of connectMongo
NumCallers == 4

Callers == 1..NumCallers

\* cached = { conn: null, promise: null }; a promise and the connection it
\* resolves to are named by the call of mongoose.connect that made them,
\* 0 is null
NoCache == [conn |-> 0, promise |-> 0]

MongoIdle ==
    /\ cached = NoCache
    /\ connects = << >>
    /\ mPc = [c \in Callers |-> "idle"]
    /\ mConn = [c \in Callers |-> 0]

GetIdle ==
    /\ gStore = << >>
    /\ gUserId = ""
    /\ gConversationId = 0
    /\ gResponse = NoResponse

\* sessionStorage without the items, and no event in flight
NoItems == [generatedFiles |-> 0, conversationId |-> 0]
NoEvent == [type |-> "none"]

SessionIdle ==
    /\ sPhase = "none"
    /\ sItems = NoItems
    /\ wConversationId = 0
    /\ sStore = << >>
    /\ sProject = [number |-> 0, conversation |-> 0]
    /\ sEvent = NoEvent
    /\ sSent = << >>

\* no instance of the display is mounted and no timeout is set
TimerIdle ==
    /\ tMounted = FALSE
    /\ tEpoch = 0
    /\ tPending = {}
    /\ tStreamingRef = 0
    /\ tCopyRef = 0
    /\ tNextId = 1
    /\ tCursor = 0
    /\ tNeedsRender = FALSE
    /\ tCopying = 0
    /\ tTicked = {}
    /\ tDouble = FALSE
    /\ tLate = 0

\* number of request slots of the persistence part
NumWriters == 2

Writers == 1..NumWriters

NoWrite == [pc |-> "idle", isIterativeUpdate |-> FALSE,
            existingFiles |-> [given |-> FALSE, files |-> << >>],
            found |-> FALSE, id |-> 0, currentFiles |-> << >>,
            newFiles |-> << >>,
            turn |-> [fileChanges |-> << >>, fullState |-> << >>],
            seen |-> 0, overlapped |-> FALSE]

PersistIdle ==
    /\ pStore = << >>
    /\ pReq = [w \in Writers |-> NoWrite]
    /\ pCount = 0
    /\ pSupplied = {}

\* the prompt and the uploaded files a page can be opened with: nothing
NoStartInput == [prompt |-> << >>, files |-> "none"]

NoStartRequest == [sent |-> FALSE, prompt |-> << >>, uploadedFiles |-> << >>]

\* the streaming page is not mounted
StartIdle ==
    /\ pageMounted = FALSE
    /\ searchParams = NoStartInput
    /\ sessionItems = NoStartInput
    /\ effectPending = FALSE
    /\ generationStartedRef = FALSE
    /\ pageState = [prompt |-> << >>, uploadedFiles |-> << >>,
                    error |-> "", isGenerating |-> TRUE]
    /\ fetchStarts = 0
    /\ effectRuns = 0
    /\ startRequest = NoStartRequest
    /\ pageChanges = 0

ChunkIdle ==
    /\ kReader = "none"
    /\ kFrames = << >>
    /\ kStream = << >>
    /\ kPos = 0
    /\ kBuffer = << >>
    /\ fullResponse = << >>
    /\ kOut = << >>
    /\ kDone = FALSE
    /\ kCut = FALSE

\* the server with no request and the API key set
ServerIdle == ServerInit /\ apiKey

(***************************************************************************)
(* createStreamingResponse                                                 *)
(***************************************************************************)
\* sendData: controller.enqueue throws once the stream is no longer readable
CanEnqueue(r) == stream[r] = "readable"

\* the messages of the errors thrown in POST and in what it calls
StatusError == "Status"
ReadFailed == "read failed"
Truncated == "Response truncated: Increase max_tokens or simplify prompt"
NoContent == "No content generated by Anthropic API"
ParseFailed == "Failed to parse generated code"
SaveFailed == "save failed"
InvalidState == "Invalid state"
CastFailed == "Cast to ObjectId failed"

\* catch (err) { sendData({type: "error", error: err.message}) } finally {
\* closeStream() } after the try block threw err with the events evs
\* enqueued: on a stream the client has cancelled both enqueue and close
\* throw and the task rejects
Catch(r, evs, err) ==
    IF CanEnqueue(r)
    THEN /\ events' = [events EXCEPT ![r] =
                            Append(evs, [type |-> "error", error |-> err])]
         /\ stream' = [stream EXCEPT ![r] = "closed"]
         /\ task' = [task EXCEPT ![r] = "fulfilled"]
         /\ pc' = [pc EXCEPT ![r] = "done"]
    ELSE /\ events' = [events EXCEPT ![r] = evs]
         /\ stream' = stream
         /\ task' = [task EXCEPT ![r] = "rejected"]
         /\ pc' = [pc EXCEPT ![r] = "done"]

\* NextResponse.json({error}, {status}): the early returns and the catch
\* of POST
Respond(r, status, err) ==
    /\ response' = [response EXCEPT ![r] = [status |-> status, error |-> err]]
    /\ pc' = [pc EXCEPT ![r] = "done"]

(***************************************************************************)
(* POST                                                                    *)
(***************************************************************************)
\* the mutant of Dispatch whose task sends no status event
DispatchNoStatus(r, b) ==
    /\ pc' = [pc EXCEPT ![r] = "fetch"]
    /\ IF b.streaming
       THEN /\ stream' = [stream EXCEPT ![r] = "readable"]
            /\ events' = [events EXCEPT ![r] = << >>]
            /\ task' = [task EXCEPT ![r] = "running"]
            /\ response' = [response EXCEPT ![r] = [status |-> 200]]
       ELSE UNCHANGED <<stream, events, task, response>>

\* what POST does once the prompt is built: in streaming mode it creates the
\* stream and starts the task, which runs up to its first await (the fetch)
\* and so has sent the status event when POST returns the stream
Dispatch(r, b) ==
    /\ pc' = [pc EXCEPT ![r] = "fetch"]
    /\ IF b.streaming
       THEN /\ stream' = [stream EXCEPT ![r] = "readable"]
            /\ events' = [events EXCEPT ![r] =
                    <<[type |-> "status",
                       message |-> IF b.isIterativeUpdate
                                   THEN "Applying changes..."
                                   ELSE "Starting generation..."]>>]
            /\ task' = [task EXCEPT ![r] = "running"]
            /\ response' = [response EXCEPT ![r] = [status |-> 200]]
       ELSE UNCHANGED <<stream, events, task, response>>

\* POST up to its first await after the body is read: validation, the API
\* key, and either the lookup of the conversation or the dispatch
Post(r) ==
    /\ pc[r] = "idle"
    /\ started < MaxRequests
    /\ \E b \in Bodies :
        /\ body' = [body EXCEPT ![r] = b]
        /\ started' = started + 1
        /\ IF ~b.hasPrompt /\ ~b.hasUploads
           THEN Respond(r, 400, "Prompt or uploaded files required") /\ UNCHANGED <<stream, events, task>>
           ELSE IF ~apiKey
           THEN Respond(r, 500, "Missing API key")
                /\ UNCHANGED <<stream, events, task>>
           ELSE IF b.isIterativeUpdate /\ b.conversationId # 0
           THEN /\ pc' = [pc EXCEPT ![r] = "findById"]
                /\ UNCHANGED <<stream, events, task, response>>
           ELSE Dispatch(r, b)
    /\ UNCHANGED <<store, apiKey, conversation, deltas, files, fileIdx, saved>>
    /\ UNCHANGED stopReason
    /\ UNCHANGED nonServerVars

\* conversation = await Conversation.findById(conversationId): the document,
\* null, or for an id that cannot be cast the rejection that the catch of
\* POST turns into a 500 response
FindById(r) ==
    /\ pc[r] = "findById"
    /\ IF body[r].conversationId \in 1..Len(store)
       THEN /\ conversation' = [conversation EXCEPT ![r] =
                    [found |-> TRUE, id |-> body[r].conversationId,
                     currentFiles |-> store[body[r].conversationId].currentFiles]]
            /\ Dispatch(r, body[r])
       ELSE IF body[r].conversationId = MalformedId
       THEN /\ Respond(r, 500, CastFailed)
            /\ UNCHANGED <<conversation, stream, events, task>>
       ELSE /\ Respond(r, 404, "Conversation not found")
            /\ UNCHANGED <<conversation, stream, events, task>>
    /\ UNCHANGED <<store, apiKey, started, body, deltas, files, fileIdx, saved>>
    /\ UNCHANGED stopReason
    /\ UNCHANGED nonServerVars

\* await fetchWithRetry(...): a response, or the error of the last attempt
Fetch(r) ==
    /\ pc[r] = "fetch"
    /\ \E ok \in BOOLEAN :
        IF body[r].streaming
        THEN /\ IF ok
                THEN /\ pc' = [pc EXCEPT ![r] = "read"]
                     /\ UNCHANGED <<events, stream, task>>
                ELSE Catch(r, events[r], StatusError)
             /\ UNCHANGED response
        ELSE /\ IF ok
                THEN /\ pc' = [pc EXCEPT ![r] = "json"]
                     /\ UNCHANGED response
                ELSE Respond(r, 500, StatusError)
             /\ UNCHANGED <<events, stream, task>>
    /\ UNCHANGED <<store, apiKey, started, body, conversation, deltas, files,
                   fileIdx, saved>>
    /\ UNCHANGED stopReason
    /\ UNCHANGED nonServerVars

\* reader.read() yields a chunk that holds a content_block_delta frame: the
\* text is appended to fullResponse and sent as a progress event; what
\* sendData throws on a cancelled stream is caught with the parse errors of
\* the frame and ignored
ReadChunk(r) ==
    /\ pc[r] = "read"
    /\ deltas[r] < MaxDeltas
    /\ deltas' = [deltas EXCEPT ![r] = @ + 1]
    /\ events' = [events EXCEPT ![r] =
            IF CanEnqueue(r)
            THEN Append(@, [type |-> "progress", content |-> deltas[r] + 1])
            ELSE @]
    /\ UNCHANGED <<stream, task, pc>>
    /\ UNCHANGED <<store, apiKey, started, body, conversation, response, files,
                   fileIdx, saved>>
    /\ UNCHANGED stopReason
    /\ UNCHANGED nonServerVars

\* reader.read() rejects: the upstream connection failed
ReadError(r) ==
    /\ pc[r] = "read"
    /\ Catch(r, events[r], ReadFailed)
    /\ UNCHANGED <<store, apiKey, started, body, conversation, response, deltas,
                   files, fileIdx, saved>>
    /\ UNCHANGED stopReason
    /\ UNCHANGED nonServerVars

\* Parse and validate files .. Detect changes, for the extracted newFiles
Reconcile(r, newFiles) ==
    LET previousFiles ==
            IF body[r].existingFiles.given THEN body[r].existingFiles.files
            ELSE IF conversation[r].found THEN conversation[r].currentFiles
            ELSE EmptyFiles
    IN  [newFiles |-> newFiles,
         previousFiles |-> previousFiles,
         fullFileState |-> Spread(previousFiles, newFiles),
         fileChanges |-> detectFileChanges(previousFiles, newFiles)]

\* stop_reason of the provider's message
StopReasons == {"end_turn", "max_tokens"}

\* reader.read() reports done, the stream having carried some stop_reason
\* in a frame the loop does not look at: extractAndParseJSON(fullResponse)
\* throws or returns a file state that is not empty; the task then suspends
\* at save()
ReadDone(r) ==
    /\ pc[r] = "read"
    /\ \E stop \in StopReasons : stopReason' = [stopReason EXCEPT ![r] = stop]
    /\ \/ /\ Catch(r, events[r], ParseFailed)
          /\ UNCHANGED files
       \/ \E newFiles \in ProviderFileStates :
            /\ files' = [files EXCEPT ![r] = Reconcile(r, newFiles)]
            /\ pc' = [pc EXCEPT ![r] = "save"]
            /\ UNCHANGED <<events, stream, task>>
    /\ UNCHANGED <<store, apiKey, started, body, conversation, response, deltas,
                   fileIdx, saved>>
    /\ UNCHANGED nonServerVars

\* non-streaming: await response.json(), the max_tokens and empty-content
\* checks and the extraction; every throw ends in the catch of POST
Json(r) ==
    /\ pc[r] = "json"
    /\ \E stop \in StopReasons :
        /\ stopReason' = [stopReason EXCEPT ![r] = stop]
        /\ IF stop = "max_tokens"
           THEN /\ Respond(r, 500, Truncated)
                /\ UNCHANGED files
           ELSE \/ /\ \E err \in {NoContent, ParseFailed} : Respond(r, 500, err)
                   /\ UNCHANGED files
                \/ \E newFiles \in ProviderFileStates :
                     /\ files' = [files EXCEPT ![r] = Reconcile(r, newFiles)]
                     /\ pc' = [pc EXCEPT ![r] = "save"]
                     /\ UNCHANGED response
    /\ UNCHANGED <<store, apiKey, started, body, conversation, stream, events,
                   task, deltas, fileIdx, saved>>
    /\ UNCHANGED nonServerVars

\* one element of conversationTurns (the prompt and the timestamp are left out)
Turn(fileChanges, fullState) ==
    [fileChanges |-> fileChanges, fullState |-> fullState]

\* Object.keys(newFiles).map(path => ({ path, status: "new" }))
AllNew(newFiles) ==
    [i \in 1..Len(newFiles) |-> FileChange(newFiles[i].path, "new", Undefined)]

\* the mutant of StoreAfterSave that pushes the turn and leaves currentFiles
StoreAfterSaveStale(r) ==
    IF body[r].isIterativeUpdate /\ conversation[r].found
    THEN [store EXCEPT ![conversation[r].id] =
            [@ EXCEPT !.conversationTurns =
                        Append(@, Turn(files[r].fileChanges, files[r].fullFileState))]]
    ELSE Append(store,
            [userId |-> body[r].userId,
             conversationTurns |->
                <<Turn(AllNew(files[r].newFiles), files[r].fullFileState)>>,
             currentFiles |-> files[r].fullFileState])

\* the mutant of StoreAfterSave that inserts a new document for every request
StoreAfterSaveAlwaysNew(r) ==
    Append(store,
        [userId |-> body[r].userId,
         conversationTurns |->
            <<Turn(AllNew(files[r].newFiles), files[r].fullFileState)>>,
         currentFiles |-> files[r].fullFileState])

\* the collection after conversation.save() has succeeded: an iterative
\* request that holds a document pushes its turn and sets currentFiles in
\* one update, any other request inserts a new document
StoreAfterSave(r) ==
    IF body[r].isIterativeUpdate /\ conversation[r].found
    THEN [store EXCEPT ![conversation[r].id] =
            [@ EXCEPT !.conversationTurns =
                        Append(@, Turn(files[r].fileChanges, files[r].fullFileState)),
                      !.currentFiles = files[r].fullFileState]]
    ELSE Append(store,
            [userId |-> body[r].userId,
             conversationTurns |->
                <<Turn(AllNew(files[r].newFiles), files[r].fullFileState)>>,
             currentFiles |-> files[r].fullFileState])

\* conversation._id after the save
SavedId(r) ==
    IF body[r].isIterativeUpdate /\ conversation[r].found
    THEN conversation[r].id
    ELSE Len(store) + 1

\* the mutant of FileEvent that reports every file as new
FileEventAlwaysNew(r, i) ==
    [type |-> "file", fileName |-> files[r].newFiles[i].path,
     content |-> files[r].newFiles[i].content, changeType |-> "new"]

\* the i-th file event: changeInfo?.status || "new"
FileEvent(r, i) ==
    LET fileName == files[r].newFiles[i].path
        changeInfo == EntriesFor(files[r].fileChanges, fileName)
    IN  [type |-> "file", fileName |-> fileName,
         content |-> files[r].newFiles[i].content,
         changeType |-> IF changeInfo = << >> THEN "new" ELSE changeInfo[1].status]

CompleteEvent(r) ==
    [type |-> "complete", conversationId |-> conversation[r].id,
     userId |-> body[r].userId, changedFiles |-> files[r].fileChanges,
     fullFiles |-> IF body[r].isIterativeUpdate THEN files[r].fullFileState
                   ELSE files[r].newFiles,
     isIterativeUpdate |-> body[r].isIterativeUpdate]

\* NextResponse.json({files, fullFiles, changedFiles, conversationId, ...})
JsonResponse(r, id) ==
    [status |-> 200, files |-> files[r].newFiles,
     fullFiles |-> files[r].fullFileState,
     changedFiles |-> files[r].fileChanges, conversationId |-> id,
     userId |-> body[r].userId,
     isIterativeUpdate |-> body[r].isIterativeUpdate]

\* the mutant of Save that does not await the save: a rejected save leaves
\* the store alone and the request goes on as after a successful one
SaveUnchecked(r) ==
    /\ pc[r] = "save"
    /\ \E ok \in BOOLEAN :
        /\ ok => body[r].hasPrompt
        /\ store' = IF ok THEN StoreAfterSave(r) ELSE store
        /\ conversation' = [conversation EXCEPT ![r] =
                [found |-> TRUE, id |-> SavedId(r),
                 currentFiles |-> files[r].fullFileState]]
        /\ saved' = [saved EXCEPT ![r] = IF ok THEN "ok" ELSE "failed"]
        /\ IF body[r].streaming
           THEN /\ IF CanEnqueue(r)
                   THEN /\ events' = [events EXCEPT ![r] =
                                          Append(@, FileEvent(r, 1))]
                        /\ fileIdx' = [fileIdx EXCEPT ![r] = 1]
                        /\ pc' = [pc EXCEPT ![r] = "files"]
                        /\ UNCHANGED <<stream, task>>
                   ELSE /\ Catch(r, events[r], InvalidState)
                        /\ UNCHANGED fileIdx
                /\ UNCHANGED response
           ELSE /\ response' = [response EXCEPT ![r] =
                                  JsonResponse(r, SavedId(r))]
                /\ pc' = [pc EXCEPT ![r] = "done"]
                /\ UNCHANGED <<events, stream, task, fileIdx>>
    /\ UNCHANGED <<apiKey, started, body, deltas, files>>
    /\ UNCHANGED stopReason
    /\ UNCHANGED nonServerVars

\* await conversation.save(): the schema requires a prompt, so the save of a
\* request without one is rejected; any save can fail in the database.  A
\* streaming task goes on to its first file event and suspends at the pacing
\* timer, a non-streaming POST returns its response
Save(r) ==
    /\ pc[r] = "save"
    /\ \/ /\ body[r].hasPrompt
          /\ store' = StoreAfterSave(r)
          /\ conversation' = [conversation EXCEPT ![r] =
                [found |-> TRUE, id |-> SavedId(r),
                 currentFiles |-> files[r].fullFileState]]
          /\ saved' = [saved EXCEPT ![r] = "ok"]
          /\ IF body[r].streaming
             THEN /\ IF CanEnqueue(r)
                     THEN /\ events' = [events EXCEPT ![r] =
                                            Append(@, FileEvent(r, 1))]
                          /\ fileIdx' = [fileIdx EXCEPT ![r] = 1]
                          /\ pc' = [pc EXCEPT ![r] = "files"]
                          /\ UNCHANGED <<stream, task>>
                     ELSE /\ Catch(r, events[r], InvalidState)
                          /\ UNCHANGED fileIdx
                  /\ UNCHANGED response
             ELSE /\ response' = [response EXCEPT ![r] =
                                    JsonResponse(r, SavedId(r))]
                  /\ pc' = [pc EXCEPT ![r] = "done"]
                  /\ UNCHANGED <<events, stream, task, fileIdx>>
       \/ /\ saved' = [saved EXCEPT ![r] = "failed"]
          /\ IF body[r].streaming
             THEN Catch(r, events[r], SaveFailed) /\ UNCHANGED response
             ELSE Respond(r, 500, SaveFailed) /\ UNCHANGED <<events, stream, task>>
          /\ UNCHANGED <<store, conversation, fileIdx>>
    /\ UNCHANGED <<apiKey, started, body, deltas, files>>
    /\ UNCHANGED stopReason
    /\ UNCHANGED nonServerVars

\* the 300 ms pacing timer fires: the next file event, or after the last one
\* the complete event and closeStream() in the finally
FileTick(r) ==
    /\ pc[r] = "files"
    /\ IF ~CanEnqueue(r)
       THEN /\ Catch(r, events[r], InvalidState)
            /\ UNCHANGED fileIdx
       ELSE IF fileIdx[r] < Len(files[r].newFiles)
       THEN /\ events' = [events EXCEPT ![r] =
                            Append(@, FileEvent(r, fileIdx[r] + 1))]
            /\ fileIdx' = [fileIdx EXCEPT ![r] = @ + 1]
            /\ UNCHANGED <<stream, task, pc>>
       ELSE /\ events' = [events EXCEPT ![r] = Append(@, CompleteEvent(r))]
            /\ stream' = [stream EXCEPT ![r] = "closed"]
            /\ task' = [task EXCEPT ![r] = "fulfilled"]
            /\ pc' = [pc EXCEPT ![r] = "done"]
            /\ UNCHANGED fileIdx
    /\ UNCHANGED <<store, apiKey, started, body, conversation, response, deltas,
                   files, saved>>
    /\ UNCHANGED stopReason
    /\ UNCHANGED nonServerVars

\* the client cancels the stream it was handed: cancel() only logs
Cancel(r) ==
    /\ stream[r] = "readable"
    /\ stream' = [stream EXCEPT ![r] = "cancelled"]
    /\ UNCHANGED <<store, apiKey, started, pc, body, conversation, events, task,
                   response, deltas, files, fileIdx, saved>>
    /\ UNCHANGED stopReason
    /\ UNCHANGED nonServerVars

\* the request is over: its locals go out of scope and the slot is free
Release(r) ==
    /\ pc[r] = "done"
    /\ pc' = [pc EXCEPT ![r] = "idle"]
    /\ body' = [body EXCEPT ![r] = NoBody]
    /\ conversation' = [conversation EXCEPT ![r] = NoConversation]
    /\ stream' = [stream EXCEPT ![r] = "none"]
    /\ events' = [events EXCEPT ![r] = << >>]
    /\ task' = [task EXCEPT ![r] = "none"]
    /\ response' = [response EXCEPT ![r] = NoResponse]
    /\ deltas' = [deltas EXCEPT ![r] = 0]
    /\ files' = [files EXCEPT ![r] = NoFiles]
    /\ fileIdx' = [fileIdx EXCEPT ![r] = 0]
    /\ saved' = [saved EXCEPT ![r] = "none"]
    /\ stopReason' = [stopReason EXCEPT ![r] = "none"]
    /\ UNCHANGED <<store, apiKey, started>>
    /\ UNCHANGED nonServerVars

Init ==
    /\ ServerInit
    /\ DiffIdle
    /\ RetryIdle
    /\ ExtractIdle
    /\ RevealIdle
    /\ ClientIdle
    /\ MongoIdle
    /\ TimerIdle
    /\ StartIdle
    /\ PersistIdle
    /\ ChunkIdle
    /\ SessionIdle
    /\ GetIdle

Next ==
    \/ \E r \in Reqs : Post(r)
    \/ \E r \in Reqs : FindById(r)
    \/ \E r \in Reqs : Fetch(r)
    \/ \E r \in Reqs : ReadChunk(r)
    \/ \E r \in Reqs : ReadError(r)
    \/ \E r \in Reqs : ReadDone(r)
    \/ \E r \in Reqs : Json(r)
    \/ \E r \in Reqs : Save(r)
    \/ \E r \in Reqs : FileTick(r)
    \/ \E r \in Reqs : Cancel(r)
    \/ \E r \in Reqs : Release(r)

Spec == Init /\ [][Next]_vars

(***************************************************************************)
(* The reconciler on its own: detectFileChanges applied to every pair of   *)
(* file states, empty contents included.                                   *)
(***************************************************************************)
DiffInit ==
    /\ dPrev \in FileStates
    /\ dNew \in FileStates
    /\ dChanges = << >>
    /\ dDone = FALSE
    /\ ServerInit
    /\ RetryIdle
    /\ ExtractIdle
    /\ RevealIdle
    /\ ClientIdle
    /\ MongoIdle
    /\ TimerIdle
    /\ StartIdle
    /\ PersistIdle
    /\ ChunkIdle
    /\ SessionIdle
    /\ GetIdle

DetectFileChanges ==
    /\ ~dDone
    /\ dChanges' = detectFileChanges(dPrev, dNew)
    /\ dDone' = TRUE
    /\ UNCHANGED <<dPrev, dNew>>
    /\ UNCHANGED nonDiffVars

DiffNext == DetectFileChanges

SpecDiff == DiffInit /\ [][DiffNext]_vars

(***************************************************************************)
(* Properties of the reconciler (SpecDiff).                                *)
(***************************************************************************)
\* C8: a path present only in newFiles is classified new and a path present
\* only in previousFiles is classified deleted with its previous content,
\* whatever the contents are, the empty string included.
C8_OnlyInOneSide ==
    dDone =>
        /\ \A p \in KeySet(dNew) \ KeySet(dPrev) :
                EntriesFor(dChanges, p) = <<FileChange(p, "new", Undefined)>>
        /\ \A p \in KeySet(dPrev) \ KeySet(dNew) :
                EntriesFor(dChanges, p) = <<FileChange(p, "deleted", Get(dPrev, p))>>

\* C9: a path present in both file states gets an updated entry with the
\* previous content exactly when the two contents differ, and no entry
\* exactly when they are equal, whatever the contents are.
C9_InBothSides ==
    dDone =>
        \A p \in KeySet(dPrev) \cap KeySet(dNew) :
            IF Get(dPrev, p) # Get(dNew, p)
            THEN EntriesFor(dChanges, p) = <<FileChange(p, "updated", Get(dPrev, p))>>
            ELSE EntriesFor(dChanges, p) = << >>

\* C10: the result holds only paths of the two file states, no path twice,
\* exactly one entry for each path whose presence or content differs and no
\* entry for a path that is unchanged.
C10_OneEntryPerDifference ==
    dDone =>
        /\ \A i \in 1..Len(dChanges) :
                dChanges[i].path \in KeySet(dPrev) \cup KeySet(dNew)
        /\ \A p \in KeySet(dPrev) \cup KeySet(dNew) :
                Len(EntriesFor(dChanges, p)) =
                    IF Get(dPrev, p) # Get(dNew, p) THEN 1 ELSE 0

\* C10 witness: two files compared, one changed (to the empty string) and one
\* unchanged, and the result is the single entry of the changed one
C10_Witness ==
    /\ dDone
    /\ Len(dPrev) = 2
    /\ Len(dNew) = 2
    /\ Len(dChanges) = 1
    /\ \E p \in KeySet(dPrev) \cap KeySet(dNew) :
            Get(dPrev, p) # "" /\ Get(dNew, p) = ""

(***************************************************************************)
(* Properties of the request pipeline (Spec).                              *)
(***************************************************************************)
Count(evs, t) == Len(SelectSeq(evs, LAMBDA e : e.type = t))

HasEvent(r, t) == Count(events[r], t) > 0

LastEvent(r) == events[r][Len(events[r])]

\* the place of an event type in the order of the protocol
Rank(t) ==
    CASE t = "status" -> 0
      [] t = "progress" -> 1
      [] t = "file" -> 2
      [] OTHER -> 3

\* the streaming task of r has ended
TaskEnded(r) == pc[r] = "done" /\ task[r] # "none"

\* the turn of r is in the store
Durable(r) ==
    /\ conversation[r].id \in 1..Len(store)
    /\ \E i \in 1..Len(store[conversation[r].id].conversationTurns) :
            store[conversation[r].id].conversationTurns[i].fullState
                = files[r].fullFileState

\* C1: the events of a streaming request that succeeds are one status event
\* first, then the progress events, then the file events, then one complete
\* event that is the last event; no progress event follows a file event and,
\* in every state, a complete event has nothing after it.
C1_EventOrder ==
    \A r \in Reqs :
        LET e == events[r]
        IN  /\ \A i \in 1..Len(e) : e[i].type = "complete" => i = Len(e)
            /\ (TaskEnded(r) /\ task[r] = "fulfilled" /\ ~HasEvent(r, "error")) =>
                /\ e # << >>
                /\ e[1].type = "status"
                /\ Count(e, "status") = 1
                /\ e[Len(e)].type = "complete"
                /\ Count(e, "complete") = 1
                /\ Count(e, "file") = Len(files[r].newFiles)
                /\ Count(e, "file") >= 1
                /\ \A i, j \in 1..Len(e) :
                        i < j => Rank(e[i].type) <= Rank(e[j].type)

\* C1 witness: a stream of status, progress, two file events and complete
C1_Witness ==
    \E r \in Reqs :
        /\ Len(events[r]) = 5
        /\ [i \in 1..5 |-> events[r][i].type]
                = <<"status", "progress", "file", "file", "complete">>

\* C2: a streaming request that fails at any stage, event emission included,
\* leaves exactly one error event and no complete event on its stream, which
\* is then closed; no stream carries both a complete and an error event.
C2_ExactlyOneErrorOnFailure ==
    \A r \in Reqs :
        /\ ~(HasEvent(r, "complete") /\ HasEvent(r, "error"))
        /\ (TaskEnded(r) /\ ~HasEvent(r, "complete")) =>
                /\ Count(events[r], "error") = 1
                /\ stream[r] \in {"closed", "cancelled"}

\* C3: a complete event or a 200 JSON response is produced only once the
\* turn is saved; when the save fails after a successful extraction there
\* is no complete event and no 200 response, and the client gets an error:
\* the 500 response, or the error event as last event of the stream it has
\* not cancelled.
C3_CompleteOnlyAfterSave ==
    \A r \in Reqs :
        /\ HasEvent(r, "complete") => saved[r] = "ok" /\ Durable(r)
        /\ (~body[r].streaming /\ response[r].status = 200) =>
                saved[r] = "ok" /\ Durable(r)
        /\ saved[r] = "failed" =>
                /\ files[r].newFiles # EmptyFiles
                /\ ~HasEvent(r, "complete")
                /\ IF body[r].streaming
                   THEN stream[r] = "cancelled" \/ LastEvent(r).type = "error"
                   ELSE response[r].status = 500

\* C3 witness: the database rejects the save of a streaming request that has
\* a prompt, and the stream ends with the error event
C3_Witness ==
    \E r \in Reqs :
        /\ body[r].streaming
        /\ body[r].hasPrompt
        /\ saved[r] = "failed"
        /\ stream[r] = "closed"
        /\ LastEvent(r).type = "error"

\* the change-set of section 4.3 between two file states, as a set
ChangeSet(previous, next) ==
    {FileChange(p, "new", Undefined) : p \in KeySet(next) \ KeySet(previous)}
    \cup {FileChange(p, "deleted", Get(previous, p)) :
            p \in KeySet(previous) \ KeySet(next)}
    \cup {FileChange(p, "updated", Get(previous, p)) :
            p \in {q \in KeySet(previous) \cap KeySet(next) :
                        Get(previous, q) # Get(next, q)}}

Range(seq) == {seq[i] : i \in 1..Len(seq)}

\* C4: the change-set of an iterative update is the set of differences
\* between the previous full state and the new full state; so no path that
\* is still in fullFiles is reported deleted, and one file returned with new
\* content gives exactly one updated entry.
C4_ChangeSetIsFullStateDiff ==
    \A r \in Reqs :
        (body[r].isIterativeUpdate /\ files[r].newFiles # EmptyFiles) =>
            Range(files[r].fileChanges)
                = ChangeSet(files[r].previousFiles, files[r].fullFileState)

\* C5: in every stored conversation currentFiles is the fullState of the
\* last turn, and the save of a request writes its turn and its full state
\* as currentFiles in the same step.
C5_CurrentFilesIsLastTurn ==
    /\ [](\A id \in 1..Len(store) :
            LET c == store[id]
            IN  /\ c.conversationTurns # << >>
                /\ c.currentFiles
                     = c.conversationTurns[Len(c.conversationTurns)].fullState)
    /\ [][\A r \in Reqs :
            (saved[r] # "ok" /\ saved'[r] = "ok") =>
                LET c == store'[conversation'[r].id]
                IN  /\ c.currentFiles = files[r].fullFileState
                    /\ c.conversationTurns[Len(c.conversationTurns)].fullState
                         = files[r].fullFileState]_vars

\* C5 witness: a conversation of two turns whose currentFiles is no longer
\* the full state of its first turn
C5_Witness ==
    \E id \in 1..Len(store) :
        /\ Len(store[id].conversationTurns) = 2
        /\ store[id].conversationTurns[1].fullState # store[id].currentFiles

\* the conversation that the request names is owned by another user
NamesForeignConversation(r) ==
    /\ body[r].isIterativeUpdate
    /\ body[r].conversationId \in 1..Len(store)
    /\ store[body[r].conversationId].userId # body[r].userId

\* C6: an iterative update that names the conversation of another user
\* appends no turn to it: its save never succeeds.
C6_ForeignConversationUntouched ==
    \A r \in Reqs : NamesForeignConversation(r) => saved[r] # "ok"

\* the step in which the save of r is settled
SaveStep(r) == pc[r] = "save" /\ pc'[r] # "save"

\* C7: the number of stored conversations never grows on a request with
\* isIterativeUpdate set, with or without a conversationId.
C7_IterativeNeverCreates ==
    [][\A r \in Reqs :
        (SaveStep(r) /\ body[r].isIterativeUpdate) => Len(store') = Len(store)]_vars

\* C7 as amended: a conversation is created only by a request that is not an
\* iterative update or carries no conversationId; an iterative update with a
\* conversationId leaves the store alone or appends exactly one turn to the
\* conversation it names and changes no other conversation.
C7_IterativeWithIdNeverCreates ==
    [][\A r \in Reqs :
        SaveStep(r) =>
            IF body[r].isIterativeUpdate /\ body[r].conversationId # 0
            THEN \/ store' = store
                 \/ /\ Len(store') = Len(store)
                    /\ body[r].conversationId \in 1..Len(store)
                    /\ \A id \in 1..Len(store) :
                        IF id = body[r].conversationId
                        THEN Len(store'[id].conversationTurns)
                                = Len(store[id].conversationTurns) + 1
                        ELSE store'[id] = store[id]
            ELSE \/ store' = store
                 \/ /\ Len(store') = Len(store) + 1
                    /\ SubSeq(store', 1, Len(store)) = store]_vars

\* C7 witness: an iterative update with a conversationId has appended the
\* second turn of the conversation it names
C7_Witness ==
    \E r \in Reqs :
        /\ body[r].isIterativeUpdate
        /\ body[r].conversationId \in 1..Len(store)
        /\ saved[r] = "ok"
        /\ Len(store) = 1
        /\ Len(store[body[r].conversationId].conversationTurns) = 2

(***************************************************************************)
(* fetchWithRetry on its own, called as POST calls it: retries and backoff *)
(* at their defaults.  A fetch comes to a response with a status, or to a  *)
(* network error (status 0).                                               *)
(***************************************************************************)
\* retries: number = 3
DefaultRetries == 3
\* backoff: number = 1000
DefaultBackoff == 1000

\* the status a fetch can come to: none (the fetch rejects), ok, and three
\* statuses that are not ok, 529 among them
FetchOutcomes == {0, 200, 404, 500, 529}

\* response.ok
Ok(status) == status = 200

\* the mutant of AfterOverloaded that multiplies as the catch does
AfterOverloadedSlow(backoff) == (backoff * 3) \div 2

\* backoff *= 2
AfterOverloaded(backoff) == backoff * 2

\* the mutant of AfterError that doubles
AfterErrorDoubled(backoff) == backoff * 2

\* backoff *= 1.5
AfterError(backoff) == (backoff * 3) \div 2

RetryInit ==
    /\ rPc = "fetch"
    /\ rAttempt = 1
    /\ rBackoff = DefaultBackoff
    /\ rOutcomes = << >>
    /\ rWaits = << >>
    /\ ServerIdle
    /\ DiffIdle
    /\ ExtractIdle
    /\ RevealIdle
    /\ ClientIdle
    /\ MongoIdle
    /\ TimerIdle
    /\ StartIdle
    /\ PersistIdle
    /\ ChunkIdle
    /\ SessionIdle
    /\ GetIdle

\* await fetch(url, options) settles: the response is returned, or the loop
\* calls setTimeout with the backoff, or the error of the last attempt is
\* thrown
RetryFetch ==
    /\ rPc = "fetch"
    /\ \E status \in FetchOutcomes :
        /\ rOutcomes' = Append(rOutcomes, status)
        /\ IF status = 529 /\ rAttempt < DefaultRetries
           THEN /\ rPc' = "wait"
                /\ rWaits' = Append(rWaits, rBackoff)
           ELSE IF Ok(status)
           THEN /\ rPc' = "returned"
                /\ UNCHANGED rWaits
           ELSE IF rAttempt = DefaultRetries
           THEN /\ rPc' = "thrown"
                /\ UNCHANGED rWaits
           ELSE /\ rPc' = "wait"
                /\ rWaits' = Append(rWaits, rBackoff)
    /\ UNCHANGED <<rAttempt, rBackoff>>
    /\ UNCHANGED nonRetryVars

\* the timer fires: the backoff grows by the factor of the branch that
\* waited, and the loop goes to its next attempt
RetryTimer ==
    /\ rPc = "wait"
    /\ rBackoff' = IF rOutcomes[Len(rOutcomes)] = 529
                   THEN AfterOverloaded(rBackoff)
                   ELSE AfterError(rBackoff)
    /\ rAttempt' = rAttempt + 1
    /\ rPc' = "fetch"
    /\ UNCHANGED <<rOutcomes, rWaits>>
    /\ UNCHANGED nonRetryVars

RetryNext == RetryFetch \/ RetryTimer

SpecRetry == RetryInit /\ [][RetryNext]_vars

(***************************************************************************)
(* Properties of fetchWithRetry (SpecRetry).                               *)
(***************************************************************************)
AllOutcomes(P(_)) == \A i \in 1..Len(rOutcomes) : P(rOutcomes[i])

Overloaded(status) == status = 529

FailedOtherwise(status) == ~Ok(status) /\ status # 529

\* C11: when every fetch answers 529, fetchWithRetry makes exactly 3 attempts
\* and waits 1000 ms, 2000 ms and 4000 ms before it fails.
C11_ThreeWaitsOn529 ==
    (rPc = "thrown" /\ AllOutcomes(Overloaded)) =>
        /\ Len(rOutcomes) = 3
        /\ rWaits = <<1000, 2000, 4000>>

\* C11 as amended: when every fetch answers 529, fetchWithRetry makes
\* exactly 3 attempts and waits 1000 ms and 2000 ms between them; it fails
\* at the third answer without a third wait.
C11_TwoWaitsOn529 ==
    /\ (rPc = "thrown" /\ AllOutcomes(Overloaded)) =>
            /\ Len(rOutcomes) = 3
            /\ rWaits = <<1000, 2000>>
    /\ (rPc \in {"fetch", "wait"} /\ AllOutcomes(Overloaded)) =>
            Len(rOutcomes) < 3

\* C11 witness: three answers of 529 and the call has failed
C11_Witness ==
    /\ rPc = "thrown"
    /\ rOutcomes = <<529, 529, 529>>

\* C12: fetchWithRetry makes at most 3 attempts, returns the first response
\* that is ok with no further attempt or wait, and fails only when the third
\* attempt fails; there is one wait between two attempts, and when every
\* attempt fails otherwise than by 529 the waits are 1000 ms and 1500 ms.
C12_RetryBound ==
    /\ Len(rOutcomes) <= 3
    /\ rAttempt <= 3
    /\ \A i \in 1..Len(rOutcomes) : Ok(rOutcomes[i]) => i = Len(rOutcomes)
    /\ rPc = "returned" <=>
            (rOutcomes # << >> /\ Ok(rOutcomes[Len(rOutcomes)]))
    /\ rPc = "returned" => Len(rWaits) = Len(rOutcomes) - 1
    /\ rPc = "thrown" =>
            /\ Len(rOutcomes) = 3
            /\ Len(rWaits) = 2
            /\ \A i \in 1..3 : ~Ok(rOutcomes[i])
    /\ (rPc = "thrown" /\ AllOutcomes(FailedOtherwise)) =>
            rWaits = <<1000, 1500>>

\* C12 witness: a network error, a 500 and a 404, and the call has failed
\* after waits of 1000 ms and 1500 ms
C12_Witness ==
    /\ rPc = "thrown"
    /\ rOutcomes = <<0, 500, 404>>
    /\ rWaits = <<1000, 1500>>

(***************************************************************************)
(* Truncation by the provider (Spec).                                      *)
(***************************************************************************)
\* the request has ended with the truncation error in front of the client:
\* the 500 response of the non-streaming path, the error event of the
\* streaming path (a client that cancelled the stream reads no event)
TruncationSurfaced(r) ==
    IF body[r].streaming
    THEN \/ stream[r] = "cancelled"
         \/ /\ events[r] # << >>
            /\ LastEvent(r).type = "error"
            /\ LastEvent(r).error = Truncated
    ELSE response[r] = [status |-> 500, error |-> Truncated]

\* C13: whenever the provider reports the stop reason max_tokens, the
\* request ends with the truncation error, extraction returns no files and
\* no turn is persisted, in the non-streaming and in the streaming path.
C13_TruncationStopsPipeline ==
    \A r \in Reqs :
        stopReason[r] = "max_tokens" =>
            /\ files[r] = NoFiles
            /\ saved[r] # "ok"
            /\ pc[r] = "done"
            /\ TruncationSurfaced(r)

(***************************************************************************)
(* extractAndParseJSON on its own.  A text is the sequence of its          *)
(* characters; a file state at this level maps a path (a text) to a        *)
(* content (a text).                                                       *)
(***************************************************************************)
Quote == "\""
Backslash == "\\"
Newline == "\n"
\* the backquote character
Backtick == "backquote"

Fence == <<Backtick, Backtick, Backtick>>
FenceJson == Fence \o <<"j", "s", "o", "n">>
NewlineFence == <<Newline>> \o Fence
NullText == <<"n", "u", "l", "l">>
TrueText == <<"t", "r", "u", "e">>
FalseText == <<"f", "a", "l", "s", "e">>
\* String({}) and the keys of the entries of an array
ObjectObject ==
    <<"[", "o", "b", "j", "e", "c", "t", " ", "O", "b", "j", "e", "c", "t", "]">>
IndexKeys == <<"0", "1", "2", "3">>

\* \s
IsSpace(c) == c \in {" ", Newline}

\* text.startsWith(pat, i), positions counted from 1
StartsWith(text, i, pat) ==
    /\ i >= 1
    /\ i + Len(pat) - 1 <= Len(text)
    /\ SubSeq(text, i, i + Len(pat) - 1) = pat

Least(S) == CHOOSE i \in S : \A j \in S : i <= j

\* text.indexOf(pat) at or after i, 0 when there is none
IndexOf(text, pat, i) ==
    LET found == {j \in i..Len(text) : StartsWith(text, j, pat)}
    IN  IF found = {} THEN 0 ELSE Least(found)

\* the first position at or after i that holds no white space
SkipSpace(text, i) ==
    Least({j \in i..(Len(text) + 1) : j > Len(text) \/ ~IsSpace(text[j])})

\* the last position at or before i that holds no white space
SkipSpaceBack(text, i) ==
    LET S == {j \in 0..i : j = 0 \/ ~IsSpace(text[j])}
    IN  CHOOSE j \in S : \A k \in S : k <= j

\* text.trim()
Trim(text) ==
    SubSeq(text, SkipSpace(text, 1), SkipSpaceBack(text, Len(text)))

\* responseText.match(/```json\s*([\s\S]*?)\s*```/): the match starts at the
\* first ```json, \s* takes all the white space behind it, and the lazy group
\* ends at the first position from which white space and a fence follow
CodeBlockMatch(text) ==
    LET open == IndexOf(text, FenceJson, 1)
        from == SkipSpace(text, open + Len(FenceJson))
        ends == {q \in from..Len(text) :
                    StartsWith(text, SkipSpace(text, q), Fence)}
    IN  IF open = 0 \/ ends = {}
        THEN [matched |-> FALSE, group |-> << >>]
        ELSE [matched |-> TRUE, group |-> SubSeq(text, from, Least(ends) - 1)]

RECURSIVE BraceScan(_, _, _, _, _)
\* the loop from startIndex: the position of the brace that brings
\* braceCount back to 0, or 0 when the text ends before
BraceScan(text, i, braceCount, inString, escaped) ==
    IF i > Len(text) THEN 0
    ELSE IF ~inString
    THEN IF text[i] = "{"
         THEN BraceScan(text, i + 1, braceCount + 1, FALSE, escaped)
         ELSE IF text[i] = "}"
         THEN IF braceCount - 1 = 0 THEN i
              ELSE BraceScan(text, i + 1, braceCount - 1, FALSE, escaped)
         ELSE BraceScan(text, i + 1, braceCount, text[i] = Quote, escaped)
    ELSE IF escaped THEN BraceScan(text, i + 1, braceCount, TRUE, FALSE)
         ELSE IF text[i] = Backslash
         THEN BraceScan(text, i + 1, braceCount, TRUE, TRUE)
         ELSE BraceScan(text, i + 1, braceCount, text[i] # Quote, FALSE)

RECURSIVE BraceScanAll(_, _, _)
\* a scan that counts every brace, those inside string literals too
BraceScanAll(text, i, braceCount) ==
    IF i > Len(text) THEN 0
    ELSE IF text[i] = "{" THEN BraceScanAll(text, i + 1, braceCount + 1)
    ELSE IF text[i] = "}"
    THEN IF braceCount - 1 = 0 THEN i
         ELSE BraceScanAll(text, i + 1, braceCount - 1)
    ELSE BraceScanAll(text, i + 1, braceCount)

\* the mutant of Extracted whose scan does not track string literals
ExtractedCountingAll(responseText) ==
    LET codeBlockMatch == CodeBlockMatch(responseText)
        startIndex == IndexOf(responseText, <<"{">>, 1)
        endIndex == BraceScanAll(responseText, startIndex, 0)
    IN  IF codeBlockMatch.matched THEN codeBlockMatch.group
        ELSE IF startIndex # 0 /\ endIndex # 0
        THEN SubSeq(responseText, startIndex, endIndex)
        ELSE responseText

\* jsonText before the fence markers are stripped
Extracted(responseText) ==
    LET codeBlockMatch == CodeBlockMatch(responseText)
        startIndex == IndexOf(responseText, <<"{">>, 1)
        endIndex == BraceScan(responseText, startIndex, 0, FALSE, FALSE)
    IN  IF codeBlockMatch.matched THEN codeBlockMatch.group
        ELSE IF startIndex # 0 /\ endIndex # 0
        THEN SubSeq(responseText, startIndex, endIndex)
        ELSE responseText

RECURSIVE StripFences(_, _)
\* jsonText.replace(/```json|```|\n```/g, "") from position i on
StripFences(text, i) ==
    IF i > Len(text) THEN << >>
    ELSE IF StartsWith(text, i, FenceJson)
    THEN StripFences(text, i + Len(FenceJson))
    ELSE IF StartsWith(text, i, Fence)
    THEN StripFences(text, i + Len(Fence))
    ELSE IF StartsWith(text, i, NewlineFence)
    THEN StripFences(text, i + Len(NewlineFence))
    ELSE <<text[i]>> \o StripFences(text, i + 1)

\* the text handed to JSON.parse
Candidate(responseText) == Trim(StripFences(Extracted(responseText), 1))

(***************************************************************************)
(* JSON.parse: a value is a record of its kind, its characters (string,    *)
(* number) and its items (the entries of an object, the elements of an     *)
(* array).                                                                 *)
(***************************************************************************)
Value(kind, chars, items) == [kind |-> kind, chars |-> chars, items |-> items]

NoParse == [ok |-> FALSE, value |-> Value("none", << >>, << >>), next |-> 0]

Parsed(value, next) == [ok |-> TRUE, value |-> value, next |-> next]

RECURSIVE ParseChars(_, _, _)
\* the characters of a string whose opening quote is before position i
ParseChars(text, i, acc) ==
    IF i > Len(text) THEN NoParse
    ELSE IF text[i] = Quote THEN Parsed(Value("string", acc, << >>), i + 1)
    ELSE IF text[i] = Backslash
    THEN IF i + 1 > Len(text) THEN NoParse
         ELSE IF text[i + 1] \in {Quote, Backslash, "/"}
         THEN ParseChars(text, i + 2, Append(acc, text[i + 1]))
         ELSE IF text[i + 1] = "n"
         THEN ParseChars(text, i + 2, Append(acc, Newline))
         ELSE NoParse
    ELSE IF text[i] = Newline THEN NoParse
    ELSE ParseChars(text, i + 1, Append(acc, text[i]))

\* the end of the run of digits that starts at i
DigitsEnd(text, i) ==
    Least({j \in i..Len(text) : j = Len(text) \/ text[j + 1] # "1"})

RECURSIVE ParseValue(_, _)
RECURSIVE ParseMembers(_, _, _)
RECURSIVE ParseElements(_, _, _)

ParseValue(text, i) ==
    LET j == SkipSpace(text, i)
    IN  IF j > Len(text) THEN NoParse
        ELSE IF text[j] = Quote THEN ParseChars(text, j + 1, << >>)
        ELSE IF text[j] = "{"
        THEN LET k == SkipSpace(text, j + 1)
             IN  IF k <= Len(text) /\ text[k] = "}"
                 THEN Parsed(Value("object", << >>, << >>), k + 1)
                 ELSE ParseMembers(text, k, << >>)
        ELSE IF text[j] = "["
        THEN LET k == SkipSpace(text, j + 1)
             IN  IF k <= Len(text) /\ text[k] = "]"
                 THEN Parsed(Value("array", << >>, << >>), k + 1)
                 ELSE ParseElements(text, k, << >>)
        ELSE IF StartsWith(text, j, NullText)
        THEN Parsed(Value("null", NullText, << >>), j + Len(NullText))
        ELSE IF StartsWith(text, j, TrueText)
        THEN Parsed(Value("boolean", TrueText, << >>), j + Len(TrueText))
        ELSE IF StartsWith(text, j, FalseText)
        THEN Parsed(Value("boolean", FalseText, << >>), j + Len(FalseText))
        ELSE IF text[j] = "1"
        THEN Parsed(Value("number", SubSeq(text, j, DigitsEnd(text, j)), << >>),
                    DigitsEnd(text, j) + 1)
        ELSE NoParse

\* "key": value, ... } with the entries before position i in acc; a key
\* that comes twice keeps its place and takes the later value
ParseMembers(text, i, acc) ==
    LET j == SkipSpace(text, i)
        key == ParseChars(text, j + 1, << >>)
        colon == SkipSpace(text, key.next)
        member == ParseValue(text, colon + 1)
        after == SkipSpace(text, member.next)
        entries == Assign(acc, key.value.chars, member.value)
    IN  IF j > Len(text) \/ text[j] # Quote THEN NoParse
        ELSE IF ~key.ok THEN NoParse
        ELSE IF colon > Len(text) \/ text[colon] # ":" THEN NoParse
        ELSE IF ~member.ok THEN NoParse
        ELSE IF after > Len(text) THEN NoParse
        ELSE IF text[after] = ","
        THEN ParseMembers(text, after + 1, entries)
        ELSE IF text[after] = "}"
        THEN Parsed(Value("object", << >>, entries), after + 1)
        ELSE NoParse

\* value, ... ] with the elements before position i in acc
ParseElements(text, i, acc) ==
    LET element == ParseValue(text, i)
        after == SkipSpace(text, element.next)
        elements == Append(acc, element.value)
    IN  IF ~element.ok THEN NoParse
        ELSE IF after > Len(text) THEN NoParse
        ELSE IF text[after] = ","
        THEN ParseElements(text, after + 1, elements)
        ELSE IF text[after] = "]"
        THEN Parsed(Value("array", << >>, elements), after + 1)
        ELSE NoParse

\* JSON.parse(text): one value and nothing but white space around it
JSONParse(text) ==
    LET parsed == ParseValue(text, 1)
    IN  IF parsed.ok /\ SkipSpace(text, parsed.next) > Len(text)
        THEN parsed
        ELSE NoParse

RECURSIVE StringOf(_)
RECURSIVE JoinElements(_, _)
\* String(value)
StringOf(value) ==
    IF value.kind = "object" THEN ObjectObject
    ELSE IF value.kind = "array" THEN JoinElements(value.items, 1)
    ELSE value.chars

\* Array.prototype.join: null elements give the empty string
JoinElements(elements, i) ==
    IF i > Len(elements) THEN << >>
    ELSE (IF elements[i].kind = "null" THEN << >> ELSE StringOf(elements[i]))
         \o (IF i < Len(elements) THEN <<",">> ELSE << >>)
         \o JoinElements(elements, i + 1)

\* Object.entries(parsed): the entries of an object, the elements of an
\* array under their indices
ObjectEntries(parsed) ==
    IF parsed.kind = "array"
    THEN [i \in 1..Len(parsed.items) |-> Entry(<<IndexKeys[i]>>, parsed.items[i])]
    ELSE parsed.items

Returned(f) == [kind |-> "returned", files |-> f]
Thrown == [kind |-> "thrown", files |-> << >>]

\* the try block after JSON.parse: typeof parsed !== "object" || parsed ===
\* null throws, every value becomes a string, no entry throws
FilesOf(parsed) ==
    IF parsed.kind \notin {"object", "array"} THEN Thrown
    ELSE LET entries == ObjectEntries(parsed)
         IN  IF entries = << >> THEN Thrown
             ELSE Returned([i \in 1..Len(entries) |->
                            Entry(entries[i].path, StringOf(entries[i].content))])

extractAndParseJSON(responseText) ==
    LET parsed == JSONParse(Candidate(responseText))
    IN  IF parsed.ok THEN FilesOf(parsed.value) ELSE Thrown

(***************************************************************************)
(* The texts extractAndParseJSON is applied to: the JSON serialisation of  *)
(* a file state, and texts that hold some other JSON value or none, each   *)
(* bare or in a fenced block, with or without prose behind it.             *)
(***************************************************************************)
\* number of paths of a serialised file state
NumExtractPaths == 2

ExtractPathNames == << <<"/", "a">>, <<"/", "b">>, <<"/", "c">>, <<"/", "d">> >>
ExtractPaths == {ExtractPathNames[i] : i \in 1..NumExtractPaths}

\* contents with braces, quotes, backslashes, line breaks and fence markers
ExtractContents ==
    { << >>, <<"a">>, <<"{">>, <<"}">>, <<"{", Quote, "}">>, <<Quote>>,
      <<Backslash>>, <<"a", Newline, "a">>, Fence, FenceJson,
      <<"a">> \o NewlineFence }

ExtractFileStates ==
    FileStatesOver(ExtractPaths, ExtractContents) \ {EmptyFiles}

RECURSIVE Escape(_)
\* the characters of a string between the quotes of its JSON form
Escape(chars) ==
    IF chars = << >> THEN << >>
    ELSE (IF Head(chars) \in {Quote, Backslash} THEN <<Backslash, Head(chars)>>
          ELSE IF Head(chars) = Newline THEN <<Backslash, "n">>
          ELSE <<Head(chars)>>) \o Escape(Tail(chars))

StringText(chars) == <<Quote>> \o Escape(chars) \o <<Quote>>

RECURSIVE Members(_, _)
Members(f, i) ==
    IF i > Len(f) THEN << >>
    ELSE StringText(f[i].path) \o <<":">> \o StringText(f[i].content)
         \o (IF i < Len(f) THEN <<",">> ELSE << >>) \o Members(f, i + 1)

\* JSON.stringify(f)
Serialize(f) == <<"{">> \o Members(f, 1) \o <<"}">>

Wraps == {"bare", "fenced", "bare, prose", "fenced, prose", "prose, bare, braces"}

TrailingProse == <<Newline, "a", " ", "a">>

LeadingProse == <<"a", " ">>

\* prose with braces and a quote
TrailingBraces == <<Newline, "}", " ", "{", Quote>>

Wrap(w, json) ==
    IF w = "prose, bare, braces" THEN LeadingProse \o json \o TrailingBraces
    ELSE
    (IF w \in {"fenced", "fenced, prose"}
     THEN FenceJson \o <<Newline>> \o json \o NewlineFence
     ELSE json)
    \o (IF w \in {"bare, prose", "fenced, prose"} THEN TrailingProse ELSE << >>)

Prefixes(text) == {SubSeq(text, 1, n) : n \in 0..(Len(text) - 1)}

\* texts that are no serialisation of a file state: other JSON values,
\* objects whose values are no strings, and texts that are no JSON
OtherTexts ==
    { NullText, TrueText, FalseText, <<"1">>, StringText(<<"a">>),
      <<"[", "]">>, <<"[", "1", "]">>, <<"[", "1", ",", "1", "]">>,
      <<"[">> \o StringText(<<"a">>) \o <<"]">>,
      <<"{", "}">>, <<"{", " ", "}">>,
      <<"{">> \o StringText(ExtractPathNames[1]) \o <<":", "1", "}">>,
      <<"{">> \o StringText(ExtractPathNames[1]) \o <<":">> \o NullText \o <<"}">>,
      <<"{">> \o StringText(ExtractPathNames[1]) \o <<":", "[", "1", ",", "1", "]", "}">>,
      <<"{">> \o StringText(ExtractPathNames[1]) \o <<":", "{", "}", "}">>,
      <<"a">>,
      <<"{">> \o StringText(ExtractPathNames[1]) \o <<":">>
              \o StringText(<<"a">>) \o <<",", "}">> }
    \cup Prefixes(Serialize(<<Entry(ExtractPathNames[1], <<"a">>)>>))

Pending == [kind |-> "pending", files |-> << >>]

ExtractInit ==
    /\ \/ \E f \in ExtractFileStates : \E w \in Wraps :
            /\ xFrom = f
            /\ xText = Wrap(w, Serialize(f))
       \/ \E text \in OtherTexts : \E w \in Wraps :
            /\ xFrom = EmptyFiles
            /\ xText = Wrap(w, text)
    /\ xOut = Pending
    /\ ServerIdle
    /\ DiffIdle
    /\ RetryIdle
    /\ RevealIdle
    /\ ClientIdle
    /\ MongoIdle
    /\ TimerIdle
    /\ StartIdle
    /\ PersistIdle
    /\ ChunkIdle
    /\ SessionIdle
    /\ GetIdle

ExtractAndParseJSON ==
    /\ xOut = Pending
    /\ xOut' = extractAndParseJSON(xText)
    /\ UNCHANGED <<xFrom, xText>>
    /\ UNCHANGED nonExtractVars

ExtractNext == ExtractAndParseJSON

SpecExtract == ExtractInit /\ [][ExtractNext]_vars

(***************************************************************************)
(* Properties of extractAndParseJSON (SpecExtract).                        *)
(***************************************************************************)
\* C14: extractAndParseJSON applied to the JSON serialisation of a file
\* state that is not empty, bare or in a fenced block, with or without
\* trailing prose, returns a file state equal to it, whatever braces,
\* quotes or fence markers the contents hold.
C14_RoundTrip ==
    (xOut # Pending /\ xFrom # EmptyFiles) => xOut = Returned(xFrom)

\* C15: extractAndParseJSON throws whenever the candidate text does not
\* parse as JSON, the parsed value is no JSON object (null, number, string,
\* boolean or array) or the object has no entry; it never returns an empty
\* file state.
C15_RejectsNonObjects ==
    LET parsed == JSONParse(Candidate(xText))
    IN  xOut # Pending =>
            /\ (\/ ~parsed.ok
                \/ parsed.value.kind # "object"
                \/ parsed.value.items = << >>) => xOut = Thrown
            /\ xOut.kind = "returned" => xOut.files # EmptyFiles

(***************************************************************************)
(* MultiFileStreamingDisplay, the reveal scheduler.  A render, the commit  *)
(* and the effects that follow it are one step.  The state setters called  *)
(* in the effects are applied in call order for the next render, which     *)
(* React schedules at once and so runs before a timer set in the same      *)
(* effects can fire.                                                       *)
(***************************************************************************)
\* number of files and of distinct contents of a files prop
NumRevealPaths == 2
NumRevealContents == 4
\* how often the files prop changes under a mounted instance
MaxChanges == 1

RevealPathNames == <<"/a.js", "/b.js", "/c.js">>
RevealContentNames ==
    << << >>, <<"x">>, <<"x", "y">>, <<"z">>, <<"z", "w", "v">> >>

RevealPaths == {RevealPathNames[i] : i \in 1..NumRevealPaths}
RevealContents == {RevealContentNames[i] : i \in 1..NumRevealContents}

\* the page mounts the display only for a files object that has keys
RevealFileStates ==
    FileStatesOver(RevealPaths, RevealContents) \ {EmptyFiles}

RECURSIVE TotalLength(_)
\* L: the number of characters of all the files
TotalLength(f) ==
    IF f = << >> THEN 0 ELSE Len(Head(f).content) + TotalLength(Tail(f))

\* every file is displayed in full; a file without characters needs no tick
\* and gets no key in displayedFiles
AllRevealed(displayed, f) ==
    \A i \in 1..Len(f) :
        (IF f[i].path \in KeySet(displayed) THEN Get(displayed, f[i].path)
         ELSE << >>) = f[i].content

\* the mutant of RevealBranch that completes without looking at isComplete
\* and hasNavigatedRef
RevealBranchUnguarded(f, fileIndex, charIndex, complete, navigated) ==
    LET currentFileContent ==
            IF fileIndex < Len(f) THEN f[fileIndex + 1].content ELSE << >>
    IN  IF Len(f) = 0 THEN "none"
        ELSE IF charIndex < Len(currentFileContent) THEN "timer"
        ELSE IF fileIndex < Len(f) - 1 THEN "advance"
        ELSE "complete"

\* the branch the reveal effect takes for the values of its render and the
\* ref as the reset effect left it: files[fileNames[i]] || "" is the empty
\* string when the index is past the last file
RevealBranch(f, fileIndex, charIndex, complete, navigated) ==
    LET currentFileContent ==
            IF fileIndex < Len(f) THEN f[fileIndex + 1].content ELSE << >>
    IN  IF Len(f) = 0 THEN "none"
        ELSE IF charIndex < Len(currentFileContent) THEN "timer"
        ELSE IF fileIndex < Len(f) - 1 THEN "advance"
        ELSE IF ~complete /\ ~navigated THEN "complete"
        ELSE "none"

\* the effects after a render of the files f with the state it read: the
\* cleanup of the last reveal effect clears its timer, the reset effect
\* runs when JSON.stringify(files) has changed (reset), and the reveal
\* effect runs always, fileNames being a new array in every render; toCome
\* is the number of file events the page has still to receive
Effects(f, reset, toCome) ==
    LET navigated == IF reset THEN FALSE ELSE hasNavigatedRef
        branch == RevealBranch(f, currentFileIndex, currentCharIndex,
                               isComplete, navigated)
        fileIndex == IF reset THEN 0 ELSE currentFileIndex
    IN  /\ displayedFiles' = IF reset THEN << >> ELSE displayedFiles
        /\ currentFileIndex' = IF branch = "advance" THEN fileIndex + 1
                               ELSE fileIndex
        /\ currentCharIndex' = IF reset \/ branch = "advance" THEN 0
                               ELSE currentCharIndex
        /\ isComplete' = IF branch = "complete" THEN TRUE
                         ELSE IF reset THEN FALSE ELSE isComplete
        /\ hasNavigatedRef' = IF branch = "complete" THEN TRUE ELSE navigated
        /\ streamingTimer' =
                IF branch = "timer"
                THEN [set |-> TRUE,
                      fileName |-> f[currentFileIndex + 1].path,
                      content |-> f[currentFileIndex + 1].content,
                      charIndex |-> currentCharIndex]
                ELSE NoTimer
        /\ filesString' = f
        /\ needsRender' = (reset \/ branch \in {"advance", "complete"})
        /\ fired' = IF branch = "complete"
                    THEN Append(fired, [ticks |-> ticks,
                                        revealed |-> AllRevealed(displayedFiles, f),
                                        toCome |-> toCome,
                                        callback |-> onAllFilesComplete])
                    ELSE fired
        /\ pushes' = IF branch = "complete" THEN pushes + 1 ELSE pushes
        /\ navTimers' = IF branch = "complete" THEN navTimers + 1 ELSE navTimers

RevealInit ==
    /\ mFiles \in RevealFileStates
    /\ sseRest = << >>
    /\ Unmounted
    /\ ServerIdle
    /\ DiffIdle
    /\ RetryIdle
    /\ ExtractIdle
    /\ ClientIdle
    /\ MongoIdle
    /\ TimerIdle
    /\ StartIdle
    /\ PersistIdle
    /\ ChunkIdle
    /\ SessionIdle
    /\ GetIdle

\* the first render of an instance and its effects
Mount ==
    /\ ~mounted
    /\ ~left
    /\ mFiles # EmptyFiles
    /\ mounted' = TRUE
    /\ Effects(mFiles, TRUE, Len(sseRest))
    /\ UNCHANGED <<mFiles, onAllFilesComplete, ticks, changes, sseRest, left>>
    /\ UNCHANGED nonRevealVars

\* the mutant of Tick that slices up to currentCharIndex, one character
\* short
TickOneShort ==
    /\ mounted
    /\ streamingTimer.set
    /\ ~needsRender
    /\ displayedFiles' = Assign(displayedFiles, streamingTimer.fileName,
                                SubSeq(streamingTimer.content, 1,
                                       streamingTimer.charIndex))
    /\ currentCharIndex' = currentCharIndex + 1
    /\ streamingTimer' = NoTimer
    /\ needsRender' = TRUE
    /\ ticks' = ticks + 1
    /\ UNCHANGED <<mFiles, mounted, currentFileIndex, isComplete,
                   hasNavigatedRef, filesString, onAllFilesComplete, changes,
                   fired, pushes, navTimers, sseRest, left>>
    /\ UNCHANGED nonRevealVars

\* the reveal timer fires: one more character of the file of its closure,
\* and the character index goes up by one
Tick ==
    /\ mounted
    /\ streamingTimer.set
    /\ ~needsRender
    /\ displayedFiles' = Assign(displayedFiles, streamingTimer.fileName,
                                SubSeq(streamingTimer.content, 1,
                                       streamingTimer.charIndex + 1))
    /\ currentCharIndex' = currentCharIndex + 1
    /\ streamingTimer' = NoTimer
    /\ needsRender' = TRUE
    /\ ticks' = ticks + 1
    /\ UNCHANGED <<mFiles, mounted, currentFileIndex, isComplete,
                   hasNavigatedRef, filesString, onAllFilesComplete, changes,
                   fired, pushes, navTimers, sseRest, left>>
    /\ UNCHANGED nonRevealVars

\* the scheduled render and its effects
Render ==
    /\ mounted
    /\ needsRender
    /\ Effects(mFiles, mFiles # filesString, Len(sseRest))
    /\ UNCHANGED <<mFiles, mounted, onAllFilesComplete, ticks, changes,
                   sseRest, left>>
    /\ UNCHANGED nonRevealVars

\* the page renders again: handleAllFilesComplete is a new function
Rerender ==
    /\ mounted
    /\ ~needsRender
    /\ onAllFilesComplete' = 1 - onAllFilesComplete
    /\ needsRender' = TRUE
    /\ UNCHANGED <<mFiles, mounted, displayedFiles, currentFileIndex,
                   currentCharIndex, isComplete, hasNavigatedRef,
                   streamingTimer, filesString, ticks, changes, fired, pushes,
                   navTimers, sseRest, left>>
    /\ UNCHANGED nonRevealVars

\* the 1500 ms timeout of handleAllFilesComplete fires
NavTimer ==
    /\ navTimers > 0
    /\ navTimers' = navTimers - 1
    /\ pushes' = pushes + 1
    /\ UNCHANGED <<mFiles, mounted, displayedFiles, currentFileIndex,
                   currentCharIndex, isComplete, hasNavigatedRef,
                   streamingTimer, filesString, needsRender,
                   onAllFilesComplete, ticks, changes, fired, sseRest, left>>
    /\ UNCHANGED nonRevealVars

RevealNext == Mount \/ Tick \/ Render \/ Rerender \/ NavTimer

SpecReveal == RevealInit /\ [][RevealNext]_vars

(***************************************************************************)
(* Properties of the reveal scheduler with fixed files (SpecReveal).       *)
(***************************************************************************)
\* nothing is scheduled: no render and no timer
RevealAtRest == mounted /\ ~needsRender /\ ~streamingTimer.set

\* C16: for fixed files of total length L the completion callback is called
\* exactly once, after exactly L reveal ticks and with every file displayed
\* in full, whatever the number of files and whatever the identity of the
\* callback prop; it is never called again.
C16_CompletesOnceAfterLTicks ==
    /\ Len(fired) <= 1
    /\ ticks <= TotalLength(mFiles)
    /\ fired # << >> =>
            /\ fired[1].ticks = TotalLength(mFiles)
            /\ fired[1].revealed
            /\ ticks = TotalLength(mFiles)
    /\ RevealAtRest => Len(fired) = 1

\* C16 witness: two files of three characters in all, the callback called
\* once after three ticks, the page rendered again since with another
\* callback, and nothing left scheduled
C16_Witness ==
    /\ Len(mFiles) = 2
    /\ TotalLength(mFiles) = 3
    /\ RevealAtRest
    /\ Len(fired) = 1
    /\ fired[1].ticks = 3
    /\ fired[1].callback # onAllFilesComplete

(***************************************************************************)
(* The reveal scheduler under a parent that changes the files prop.        *)
(***************************************************************************)
\* the parent renders the mounted instance with other files
ChangeFiles ==
    /\ mounted
    /\ changes < MaxChanges
    /\ \E f \in RevealFileStates :
        /\ f # mFiles
        /\ mFiles' = f
    /\ changes' = changes + 1
    /\ ticks' = 0
    /\ needsRender' = TRUE
    /\ UNCHANGED <<mounted, displayedFiles, currentFileIndex, currentCharIndex,
                   isComplete, hasNavigatedRef, streamingTimer, filesString,
                   onAllFilesComplete, fired, pushes, navTimers, sseRest, left>>
    /\ UNCHANGED nonRevealVars

RevealChangeNext ==
    Mount \/ Tick \/ Render \/ Rerender \/ NavTimer \/ ChangeFiles

SpecRevealChange == RevealInit /\ [][RevealChangeNext]_vars

\* what is displayed of the i-th file
Shown(i) ==
    IF mFiles[i].path \in KeySet(displayedFiles)
    THEN Get(displayedFiles, mFiles[i].path)
    ELSE << >>

\* the cursor and the display agree with the files: the files before the
\* cursor are displayed in full, the file at the cursor up to the character
\* index, the files behind it not at all
CursorAgrees ==
    \A i \in 1..Len(mFiles) :
        IF i < currentFileIndex + 1 THEN Shown(i) = mFiles[i].content
        ELSE IF i = currentFileIndex + 1
        THEN /\ currentCharIndex <= Len(mFiles[i].content)
             /\ Shown(i) = SubSeq(mFiles[i].content, 1, currentCharIndex)
        ELSE Shown(i) = << >>

\* C17: when the files prop of a mounted scheduler changes, the session is
\* reset: once the effects of the render with the new files have run and
\* their state is rendered, the display and the cursor are those of a
\* reveal of the new files from file 0, character 0 (no file is passed
\* over, nothing of the old files is shown), the completed flag is set only
\* by a completion of the new files, and the completion callback is never
\* called before every file of the files of its render is displayed in full.
C17_ResetOnChange ==
    /\ \A i \in 1..Len(fired) : fired[i].revealed
    /\ (mounted /\ filesString = mFiles /\ ~needsRender) =>
            /\ currentFileIndex < Len(mFiles)
            /\ CursorAgrees
            /\ isComplete => AllRevealed(displayedFiles, mFiles)
    /\ (RevealAtRest /\ filesString = mFiles) =>
            /\ isComplete
            /\ AllRevealed(displayedFiles, mFiles)

(***************************************************************************)
(* StreamingPage: the consumer of one SSE stream and the display it        *)
(* renders.  The display is keyed by the keys of generatedFiles, so a file *)
(* event that adds a key unmounts the instance and mounts a new one.       *)
(***************************************************************************)
StreamInit ==
    /\ sseRest \in RevealFileStates
    /\ mFiles = << >>
    /\ Unmounted
    /\ ServerIdle
    /\ DiffIdle
    /\ RetryIdle
    /\ ExtractIdle
    /\ ClientIdle
    /\ MongoIdle
    /\ TimerIdle
    /\ StartIdle
    /\ PersistIdle
    /\ ChunkIdle
    /\ SessionIdle
    /\ GetIdle

\* case "file": setGeneratedFiles adds the file when fileName and content
\* are truthy; the keys change, the mounted instance goes with its timer
\* and the page is to mount a new one.  On a page that has been left the
\* setter does nothing
FileArrives ==
    /\ sseRest # << >>
    /\ sseRest' = Tail(sseRest)
    /\ IF left \/ Head(sseRest).content = << >>
       THEN UNCHANGED <<mFiles, mounted, displayedFiles, currentFileIndex,
                        currentCharIndex, isComplete, hasNavigatedRef,
                        streamingTimer, filesString, needsRender, ticks>>
       ELSE /\ mFiles' = Assign(mFiles, Head(sseRest).path, Head(sseRest).content)
            /\ mounted' = FALSE
            /\ displayedFiles' = << >>
            /\ currentFileIndex' = 0
            /\ currentCharIndex' = 0
            /\ isComplete' = FALSE
            /\ hasNavigatedRef' = FALSE
            /\ streamingTimer' = NoTimer
            /\ filesString' = << >>
            /\ needsRender' = FALSE
            /\ ticks' = 0
    /\ UNCHANGED <<onAllFilesComplete, changes, fired, pushes, navTimers, left>>
    /\ UNCHANGED nonRevealVars

\* the navigation that router.push started replaces the page: the display
\* is unmounted and its cleanup clears the reveal timer
Leave ==
    /\ pushes > 0
    /\ ~left
    /\ left' = TRUE
    /\ mounted' = FALSE
    /\ streamingTimer' = NoTimer
    /\ needsRender' = FALSE
    /\ UNCHANGED <<mFiles, displayedFiles, currentFileIndex, currentCharIndex,
                   isComplete, hasNavigatedRef, filesString,
                   onAllFilesComplete, ticks, changes, fired, pushes,
                   navTimers, sseRest>>
    /\ UNCHANGED nonRevealVars

StreamNext ==
    FileArrives \/ Mount \/ Tick \/ Render \/ Rerender \/ NavTimer \/ Leave

SpecStream == StreamInit /\ [][StreamNext]_vars

\* C18: during one SSE stream, however file events and reveal ticks
\* interleave, the completion callback is called at most once and
\* router.push at most once, and only when every file of the stream has
\* been received and is displayed in full; a scheduler that has revealed
\* all it has while file events are still to come waits.
C18_CompletesOnceAfterWholeStream ==
    /\ Len(fired) <= 1
    /\ pushes <= 1
    /\ \A i \in 1..Len(fired) :
            /\ fired[i].toCome = 0
            /\ fired[i].revealed

(***************************************************************************)
(* The two consumers of the event stream: handleStreamingGenerate of the   *)
(* streaming page and handleChatSubmit of the workspace, from the moment   *)
(* the response with its body is there.  The events are those the server   *)
(* sends for the extracted files newFiles: the status event, file events,  *)
(* and the complete event or an error event.                               *)
(***************************************************************************)
Consumers == {"page", "workspace"}

StatusEvent == [type |-> "status"]

FileEvents(newFiles, n) ==
    [i \in 1..n |-> [type |-> "file", fileName |-> newFiles[i].path,
                     content |-> newFiles[i].content]]

\* the streams the server can send to a consumer whose files are previous:
\* the page sends no existingFiles and no isIterativeUpdate, so fullFiles is
\* newFiles; the workspace sends its files and isIterativeUpdate: true, so
\* fullFiles is { ...existingFiles, ...newFiles }
StreamsFor(kind, previous) ==
    {<<StatusEvent>> \o FileEvents(newFiles, Len(newFiles))
        \o <<[type |-> "complete",
              fullFiles |-> IF kind = "workspace"
                            THEN Spread(previous, newFiles) ELSE newFiles]>> :
        newFiles \in FileStates \ {EmptyFiles}}
    \cup
    {<<StatusEvent>> \o FileEvents(newFiles, n)
        \o <<[type |-> "error", error |-> err]>> :
        newFiles \in FileStates \ {EmptyFiles}, n \in 0..1,
        err \in {StatusError, ParseFailed}}

ClientInit ==
    /\ consumer \in Consumers
    /\ \E previous \in ClientFileStates :
        /\ consumer = "page" => previous = EmptyFiles
        /\ workingFiles = previous
        /\ baseline = IF consumer = "workspace"
                      THEN [set |-> TRUE, files |-> previous] ELSE NoBaseline
        /\ cRest \in StreamsFor(consumer, previous)
    /\ cPc = "reading"
    /\ delivered = << >>
    /\ streamedFiles = << >>
    /\ errorMessage = ""
    /\ isGenerating = TRUE
    /\ isStreaming = (consumer = "workspace")
    /\ cUnmounted = FALSE
    /\ cLocked = TRUE
    /\ cLate = 0
    /\ ServerIdle
    /\ DiffIdle
    /\ RetryIdle
    /\ ExtractIdle
    /\ RevealIdle
    /\ MongoIdle
    /\ TimerIdle
    /\ StartIdle
    /\ PersistIdle
    /\ ChunkIdle
    /\ SessionIdle
    /\ GetIdle

\* the next event of the stream is read whole
Reads(t) ==
    /\ cPc = "reading"
    /\ cRest # << >>
    /\ Head(cRest).type = t
    /\ cRest' = Tail(cRest)
    /\ delivered' = Append(delivered, Head(cRest))
    /\ cLate' = IF cUnmounted THEN cLate + 1 ELSE cLate
    /\ UNCHANGED <<consumer, cPc, cUnmounted, cLocked>>

\* case "status", case "progress": nothing
ClientStatus ==
    /\ Reads("status")
    /\ UNCHANGED <<workingFiles, streamedFiles, baseline, errorMessage,
                   isGenerating, isStreaming>>
    /\ UNCHANGED nonClientVars

\* a file event: the page adds the file to generatedFiles and the workspace
\* to streamedFiles, when fileName and content are truthy
ClientFile ==
    /\ Reads("file")
    /\ LET data == Head(cRest)
       IN  IF data.content = ""
           THEN UNCHANGED <<workingFiles, streamedFiles>>
           ELSE IF consumer = "page"
           THEN /\ workingFiles' = Assign(workingFiles, data.fileName, data.content)
                /\ UNCHANGED streamedFiles
           ELSE /\ streamedFiles' = Assign(streamedFiles, data.fileName, data.content)
                /\ UNCHANGED workingFiles
    /\ UNCHANGED <<baseline, errorMessage, isGenerating, isStreaming>>
    /\ UNCHANGED nonClientVars

\* the complete event: the page stores its generatedFiles as they are and
\* keeps them; the workspace sets files to parsed.fullFiles (an object, so
\* truthy), stores them and ends isStreaming
ClientComplete ==
    /\ Reads("complete")
    /\ IF consumer = "page"
       THEN /\ baseline' = [set |-> TRUE, files |-> workingFiles]
            /\ UNCHANGED <<workingFiles, isStreaming>>
       ELSE /\ workingFiles' = Head(cRest).fullFiles
            /\ baseline' = [set |-> TRUE, files |-> Head(cRest).fullFiles]
            /\ isStreaming' = FALSE
    /\ UNCHANGED <<streamedFiles, errorMessage, isGenerating>>
    /\ UNCHANGED nonClientVars

\* the error event: the Error thrown in the case is caught by the catch
\* around the handling of the line, which logs it
ClientError ==
    /\ Reads("error")
    /\ UNCHANGED <<workingFiles, streamedFiles, baseline, errorMessage,
                   isGenerating, isStreaming>>
    /\ UNCHANGED nonClientVars

\* the page splits each chunk at "\n" and keeps no rest: an event whose
\* frame comes in two chunks parses in neither and is logged as non-JSON
ClientSplit ==
    /\ consumer = "page"
    /\ cPc = "reading"
    /\ cRest # << >>
    /\ cRest' = Tail(cRest)
    /\ delivered' = Append(delivered, Head(cRest))
    /\ cLate' = IF cUnmounted THEN cLate + 1 ELSE cLate
    /\ UNCHANGED <<consumer, cPc, workingFiles, streamedFiles, baseline,
                   errorMessage, isGenerating, isStreaming, cUnmounted, cLocked>>
    /\ UNCHANGED nonClientVars

\* reader.read() reports done: the loop ends and the finally clears
\* isGenerating, respectively isChatGenerating; the page's inner finally
\* calls reader.releaseLock(), the workspace has no such call
ClientDone ==
    /\ cPc = "reading"
    /\ cRest = << >>
    /\ cPc' = "done"
    /\ isGenerating' = FALSE
    /\ cLocked' = (consumer = "workspace")
    /\ UNCHANGED <<consumer, cRest, delivered, workingFiles, streamedFiles,
                   baseline, errorMessage, isStreaming, cUnmounted, cLate>>
    /\ UNCHANGED nonClientVars

\* chatError after the read was aborted: "Failed to update code: " and the
\* message of the AbortError
AbortFailed == "Failed to update code: aborted"

\* the component is unmounted (the user navigates away, or the display's
\* router.push("/workspace") takes the streaming page down).  The cleanup
\* of the workspace aborts streamControllerRef.current when it is set, that
\* is while handleChatSubmit runs: the pending read rejects, the outer
\* catch sets chatError and isStreaming, the finally isChatGenerating.  The
\* streaming page passes no signal to fetch and has no cleanup: its read
\* loop goes on.
ClientUnmount ==
    /\ ~cUnmounted
    /\ cUnmounted' = TRUE
    /\ IF consumer = "workspace" /\ cPc = "reading"
       THEN /\ cPc' = "done"
            /\ errorMessage' = AbortFailed
            /\ isStreaming' = FALSE
            /\ isGenerating' = FALSE
       ELSE UNCHANGED <<cPc, errorMessage, isStreaming, isGenerating>>
    /\ UNCHANGED <<consumer, cRest, delivered, workingFiles, streamedFiles,
                   baseline, cLocked, cLate>>
    /\ UNCHANGED nonClientVars

ClientNext ==
    \/ ClientStatus
    \/ ClientFile
    \/ ClientComplete
    \/ ClientError
    \/ ClientSplit
    \/ ClientDone
    \/ ClientUnmount

SpecClient == ClientInit /\ [][ClientNext]_vars

(***************************************************************************)
(* Properties of the stream consumers (SpecClient).                        *)
(***************************************************************************)
Delivered(t) == \E i \in 1..Len(delivered) : delivered[i].type = t

LastDelivered == delivered[Len(delivered)]

\* C19: once the complete event is read, the working file map of the
\* consumer is the fullFiles of the event and the sessionStorage item
\* generatedFiles holds exactly that fullFiles, on the streaming page and
\* in the workspace.
C19_FullFilesBecomeBaseline ==
    Delivered("complete") =>
        /\ workingFiles = LastDelivered.fullFiles
        /\ baseline = [set |-> TRUE, files |-> LastDelivered.fullFiles]

\* C20: when the stream has delivered an error event and the consumer has
\* returned, its error message is not empty and its generating and
\* streaming indicators are off.
C20_ErrorEventShown ==
    (cPc = "done" /\ Delivered("error")) =>
        /\ errorMessage # ""
        /\ ~isGenerating
        /\ ~isStreaming

\* C21: once the component that started the read is unmounted, the read has
\* ended, the reader lock on the response body is released, and the read
\* loop has handled no event of that stream since.
C21_UnmountEndsRead ==
    cUnmounted =>
        /\ cPc = "done"
        /\ ~cLocked
        /\ cLate = 0

(***************************************************************************)
(* The two connections of a streaming request (Spec): the event stream to  *)
(* the browser and the provider's stream the task reads.                   *)
(***************************************************************************)
\* the task holds the reader of the provider's response body
UpstreamOpen(r) == body[r].streaming /\ pc[r] = "read"

\* C22: when the browser has cancelled the event stream while the task
\* reads the provider's stream, the task reads nothing more from it: it
\* takes no further frame and does not go on to the extraction; and when
\* the read of the provider's stream fails, the event stream the browser
\* still reads is closed.
C22_NeitherConnectionOutlivesTheOther ==
    [][\A r \in Reqs :
        /\ (UpstreamOpen(r) /\ stream[r] = "cancelled") =>
                /\ deltas'[r] = deltas[r]
                /\ pc'[r] \in {"read", "done"}
        /\ (UpstreamOpen(r) /\ stream[r] = "readable" /\ pc'[r] = "done") =>
                stream'[r] = "closed"]_vars

\* C23: the streaming task never ends with an uncaught error, and a request
\* that ended without a complete event or a 200 response has given the
\* client an error event, respectively a JSON response with an error status.
C23_EveryErrorIsConverted ==
    \A r \in Reqs :
        /\ task[r] # "rejected"
        /\ (TaskEnded(r) /\ ~HasEvent(r, "complete")) => HasEvent(r, "error")
        /\ (pc[r] = "done" /\ task[r] = "none") =>
                response[r].status \in {200, 400, 404, 500}

(***************************************************************************)
(* connectMongo on its own: concurrent calls on one cache.  A call runs    *)
(* without interruption up to its await and again from the await to its    *)
(* return.                                                                 *)
(***************************************************************************)
\* the mutant of ShouldConnect that connects whatever the cache holds
ShouldConnectAlways(c) == TRUE

\* if (!cached.promise)
ShouldConnect(c) == c.promise = 0

MongoInit ==
    /\ MongoIdle
    /\ TimerIdle
    /\ StartIdle
    /\ PersistIdle
    /\ ChunkIdle
    /\ SessionIdle
    /\ GetIdle
    /\ ServerIdle
    /\ DiffIdle
    /\ RetryIdle
    /\ ExtractIdle
    /\ RevealIdle
    /\ ClientIdle

\* a call of connectMongo up to its return of cached.conn or to its await
ConnectMongo(c) ==
    /\ mPc[c] = "idle"
    /\ IF cached.conn # 0
       THEN /\ mPc' = [mPc EXCEPT ![c] = "returned"]
            /\ mConn' = [mConn EXCEPT ![c] = cached.conn]
            /\ UNCHANGED <<cached, connects>>
       ELSE /\ IF ShouldConnect(cached)
               THEN /\ connects' = Append(connects, "pending")
                    /\ cached' = [cached EXCEPT !.promise = Len(connects) + 1]
               ELSE UNCHANGED <<cached, connects>>
            /\ mPc' = [mPc EXCEPT ![c] = "await"]
            /\ mConn' = [mConn EXCEPT ![c] = cached'.promise]
    /\ UNCHANGED nonMongoVars

\* mongoose.connect comes to a connection or fails
MongoSettle(i) ==
    /\ i \in 1..Len(connects)
    /\ connects[i] = "pending"
    /\ \E outcome \in {"resolved", "rejected"} :
            connects' = [connects EXCEPT ![i] = outcome]
    /\ UNCHANGED <<cached, mPc, mConn>>
    /\ UNCHANGED nonMongoVars

\* cached.conn = await cached.promise; return cached.conn; a rejected
\* promise throws out of the call and stays in the cache
MongoResume(c) ==
    /\ mPc[c] = "await"
    /\ connects[mConn[c]] # "pending"
    /\ IF connects[mConn[c]] = "resolved"
       THEN /\ cached' = [cached EXCEPT !.conn = mConn[c]]
            /\ mPc' = [mPc EXCEPT ![c] = "returned"]
       ELSE /\ mPc' = [mPc EXCEPT ![c] = "threw"]
            /\ UNCHANGED cached
    /\ UNCHANGED <<connects, mConn>>
    /\ UNCHANGED nonMongoVars

\* the next request of the same caller
MongoAgain(c) ==
    /\ mPc[c] \in {"returned", "threw"}
    /\ mPc' = [mPc EXCEPT ![c] = "idle"]
    /\ mConn' = [mConn EXCEPT ![c] = 0]
    /\ UNCHANGED <<cached, connects>>
    /\ UNCHANGED nonMongoVars

MongoNext ==
    \/ \E c \in Callers : ConnectMongo(c)
    \/ \E i \in Callers : MongoSettle(i)
    \/ \E c \in Callers : MongoResume(c)
    \/ \E c \in Callers : MongoAgain(c)

SpecMongo == MongoInit /\ [][MongoNext]_vars

\* C24: under every interleaving of the calls, mongoose.connect is called at
\* most once; every call that awaits, awaits the promise of that one call,
\* and every call that returns, returns its connection, which is the one in
\* the cache.
C24_ConnectStartedAtMostOnce ==
    /\ Len(connects) <= 1
    /\ \A c \in Callers :
        /\ mPc[c] = "await" => mConn[c] = 1 /\ cached.promise = 1
        /\ mPc[c] = "returned" => mConn[c] = 1 /\ cached.conn = 1

\* C24 witness: a call has returned the connection while another call that
\* began before the connection was there still awaits the same promise
C24_Witness ==
    \E c1, c2 \in Callers :
        /\ c1 # c2
        /\ mPc[c1] = "returned" /\ mConn[c1] = 1
        /\ mPc[c2] = "await" /\ mConn[c2] = 1
        /\ Len(connects) = 1

(***************************************************************************)
(* The early returns of POST (Spec).                                       *)
(***************************************************************************)
\* if (!prompt && (!uploadedFiles || uploadedFiles.length === 0))
NoInput(b) == ~b.hasPrompt /\ ~b.hasUploads

\* the request was answered with this status and message before anything
\* was sent to the provider, and holds no conversation
Rejected(r, status, err) ==
    /\ response[r] = [status |-> status, error |-> err]
    /\ task[r] = "none"
    /\ stream[r] = "none"
    /\ deltas[r] = 0
    /\ files[r] = NoFiles
    /\ saved[r] = "none"
    /\ conversation[r] = NoConversation

\* isIterativeUpdate with a conversationId that names no stored conversation
Unresolvable(b) ==
    /\ b.isIterativeUpdate
    /\ b.conversationId # 0
    /\ b.conversationId \notin 1..Len(store)

\* C25: a request without prompt and without uploaded files is answered
\* 400; otherwise, without the API key, 500; otherwise, when it is an
\* iterative update whose conversationId resolves to no conversation, 404;
\* and in each case nothing was sent to the provider and the request holds
\* and saved no conversation.
C25_EarlyRejections ==
    \A r \in Reqs :
        pc[r] = "done" =>
            /\ NoInput(body[r]) =>
                    Rejected(r, 400, "Prompt or uploaded files required")
            /\ (~NoInput(body[r]) /\ ~apiKey) =>
                    Rejected(r, 500, "Missing API key")
            /\ (~NoInput(body[r]) /\ apiKey /\ Unresolvable(body[r])) =>
                    Rejected(r, 404, "Conversation not found")

(***************************************************************************)
(* GET on its own: one request against a collection of conversations, of   *)
(* which the handler reads the userId and, for the order, updatedAt.       *)
(***************************************************************************)
\* number of stored conversations
MaxStored == 2

\* number of values of updatedAt
NumTimes == 2

Stored == [userId : Users, updatedAt : 1..NumTimes]

Collections == UNION {[1..n -> Stored] : n \in 0..MaxStored}

GetInit ==
    /\ gStore \in Collections
    /\ gUserId \in Users \cup {""}
    /\ gConversationId \in 0..(Len(gStore) + 1) \cup {MalformedId}
    /\ gResponse = NoResponse
    /\ ServerIdle
    /\ DiffIdle
    /\ RetryIdle
    /\ ExtractIdle
    /\ RevealIdle
    /\ ClientIdle
    /\ MongoIdle
    /\ TimerIdle
    /\ StartIdle
    /\ PersistIdle
    /\ ChunkIdle
    /\ SessionIdle

\* the documents Conversation.find({ userId }) matches
Matching(userId) == {i \in 1..Len(gStore) : gStore[i].userId = userId}

\* .sort({ updatedAt: -1 }): the orders of S in which updatedAt never grows
SortedByUpdatedAt(S) ==
    {q \in [1..Cardinality(S) -> S] :
        /\ \A i, j \in 1..Cardinality(S) : i # j => q[i] # q[j]
        /\ \A i, j \in 1..Cardinality(S) :
                i < j => gStore[q[i]].updatedAt >= gStore[q[j]].updatedAt}

\* GET: userId is required; with a conversationId the document is looked up
\* and given to its owner only; without one the user's conversations are
\* listed.  A findById that rejects ends in the catch.
GET ==
    /\ gResponse = NoResponse
    /\ IF gUserId = ""
       THEN gResponse' = [status |-> 400, error |-> "userId is required"]
       ELSE IF gConversationId = MalformedId
       THEN gResponse' = [status |-> 500,
                          error |-> "Failed to retrieve conversations"]
       ELSE IF gConversationId # 0
       THEN IF \/ gConversationId \notin 1..Len(gStore)
               \/ gStore[gConversationId].userId # gUserId
            THEN gResponse' = [status |-> 404,
                               error |-> "Conversation not found"]
            ELSE gResponse' = [status |-> 200,
                               conversation |-> gConversationId]
       ELSE \E q \in SortedByUpdatedAt(Matching(gUserId)) :
                gResponse' = [status |-> 200, conversations |-> q]
    /\ UNCHANGED <<gStore, gUserId, gConversationId>>
    /\ UNCHANGED nonGetVars

GetNext == GET

SpecGet == GetInit /\ [][GetNext]_vars

\* C26: GET answers 400 without a userId; with a conversationId it answers
\* 200 with that conversation when the conversation exists and belongs to
\* the userId of the query, and 404 in every other case; without a
\* conversationId it answers 200 with exactly the conversations of that
\* userId, each once, the most recently updated first.
C26_GetAnswers ==
    gResponse # NoResponse =>
        IF gUserId = ""
        THEN gResponse.status = 400
        ELSE IF gConversationId # 0
        THEN IF /\ gConversationId \in 1..Len(gStore)
                /\ gStore[gConversationId].userId = gUserId
             THEN gResponse = [status |-> 200, conversation |-> gConversationId]
             ELSE gResponse.status = 404
        ELSE /\ gResponse.status = 200
             /\ LET q == gResponse.conversations
                IN  /\ Range(q) = Matching(gUserId)
                    /\ Len(q) = Cardinality(Matching(gUserId))
                    /\ \A i, j \in 1..Len(q) :
                          i < j => gStore[q[i]].updatedAt >= gStore[q[j]].updatedAt

(***************************************************************************)
(* The file events of a streaming request (Spec).                          *)
(***************************************************************************)
\* the file events on the stream of r, in order
FileEventsOf(r) == SelectSeq(events[r], LAMBDA e : e.type = "file")

\* the event tells of the entry: its path, its content, and as changeType
\* the status of the reconciler's entry for the path, or new without one
TellsOf(e, entry, fileChanges) ==
    /\ e.fileName = entry.path
    /\ e.content = entry.content
    /\ IF \E c \in Range(fileChanges) : c.path = entry.path
       THEN \E c \in Range(fileChanges) :
                c.path = entry.path /\ c.status = e.changeType
       ELSE e.changeType = "new"

\* the file events sent so far tell of the first entries of newFiles, one
\* event per entry and in the order of the entries
FollowsExtraction(r) ==
    /\ Len(FileEventsOf(r)) <= Len(files[r].newFiles)
    /\ \A i \in 1..Len(FileEventsOf(r)) :
            TellsOf(FileEventsOf(r)[i], files[r].newFiles[i], files[r].fileChanges)

\* C27 as stated: once the task of a request whose extraction succeeded has
\* ended, its stream holds one file event per entry of the extracted file
\* state, in key order, with the entry's content and the reconciler's
\* status or new.
C27_OneFileEventPerEntry ==
    \A r \in Reqs :
        (TaskEnded(r) /\ files[r].newFiles # EmptyFiles) =>
            /\ FollowsExtraction(r)
            /\ Len(FileEventsOf(r)) = Len(files[r].newFiles)

\* C27 amended: the file events always tell of the first entries of the
\* extracted file state, one per entry and in key order, with the entry's
\* content and the reconciler's status or new; and there is one for every
\* entry once the complete event is sent, which is the case whenever the
\* turn was saved and the task ended on a stream the client did not cancel.
C27_FileEventsFollowExtraction ==
    \A r \in Reqs :
        /\ FollowsExtraction(r)
        /\ HasEvent(r, "complete") =>
                Len(FileEventsOf(r)) = Len(files[r].newFiles)
        /\ (TaskEnded(r) /\ saved[r] = "ok" /\ stream[r] = "closed") =>
                HasEvent(r, "complete")

\* C27 witness: a completed stream with two file events, one for a file the
\* reconciler classified updated and one for a file it has no entry for
C27_Witness ==
    \E r \in Reqs :
        /\ HasEvent(r, "complete")
        /\ Len(FileEventsOf(r)) = 2
        /\ \E i, j \in 1..2 :
            /\ FileEventsOf(r)[i].changeType = "updated"
            /\ FileEventsOf(r)[j].changeType = "new"
            /\ \A c \in Range(files[r].fileChanges) :
                    c.path # FileEventsOf(r)[j].fileName

(***************************************************************************)
(* A browser session: projects are started on the start page, generated    *)
(* on the streaming page and continued in the workspace.  Of a request     *)
(* only the conversation it is saved to is kept, of a stream its last      *)
(* event.                                                                  *)
(***************************************************************************)
\* projects per session
MaxProjects == 2

\* follow-up requests per project
MaxFollowUps == 2

SessionInit ==
    /\ sPhase = "start"
    /\ sItems = NoItems
    /\ wConversationId = 0
    /\ sStore = << >>
    /\ sProject = [number |-> 0, conversation |-> 0]
    /\ sEvent = NoEvent
    /\ sSent = << >>
    /\ ServerIdle
    /\ DiffIdle
    /\ RetryIdle
    /\ ExtractIdle
    /\ RevealIdle
    /\ ClientIdle
    /\ MongoIdle
    /\ TimerIdle
    /\ StartIdle
    /\ PersistIdle
    /\ ChunkIdle
    /\ GetIdle

\* the follow-up requests sent for the project at hand
FollowUps == Len(SelectSeq(sSent, LAMBDA q : q.project = sProject.number))

\* the start page stores the prompt and opens the streaming page, whose
\* handleStreamingGenerate posts {prompt, streaming: true, userId} with the
\* userId of localStorage; the server saves a new conversation and ends the
\* stream with the complete event, or fails and ends it with an error event
StreamingGenerate ==
    /\ sPhase = "start"
    /\ sProject.number < MaxProjects
    /\ \E userId \in Users :
        \/ /\ sStore' = Append(sStore, [userId |-> userId, turns |-> 1])
           /\ sEvent' = [type |-> "complete", conversationId |-> Len(sStore) + 1]
           /\ sProject' = [number |-> sProject.number + 1,
                           conversation |-> Len(sStore) + 1]
        \/ /\ sEvent' = [type |-> "error"]
           /\ sProject' = [number |-> sProject.number + 1, conversation |-> 0]
           /\ UNCHANGED sStore
    /\ sPhase' = "streaming"
    /\ UNCHANGED <<sItems, wConversationId, sSent>>
    /\ UNCHANGED nonSessionVars

\* the streaming page reads the last event: case "complete" stores the items
\* generatedFiles, originalPrompt and uploadedFiles; case "error" stores
\* nothing
PageComplete ==
    /\ sPhase = "streaming"
    /\ IF sEvent.type = "complete"
       THEN /\ sItems' = [sItems EXCEPT !.generatedFiles = sProject.number]
            /\ sPhase' = "streamed"
       ELSE /\ sPhase' = "failed"
            /\ UNCHANGED sItems
    /\ sEvent' = NoEvent
    /\ UNCHANGED <<wConversationId, sStore, sProject, sSent>>
    /\ UNCHANGED nonSessionVars

\* handleBack of the streaming page: router.push("/")
HandleBack ==
    /\ sPhase = "failed"
    /\ sPhase' = "start"
    /\ UNCHANGED <<sItems, wConversationId, sStore, sProject, sEvent, sSent>>
    /\ UNCHANGED nonSessionVars

\* the workspace is mounted: with the items generatedFiles and
\* originalPrompt it takes the item conversationId, if there is one, as its
\* conversationId, which starts as null
WorkspaceLoad ==
    /\ sPhase = "streamed"
    /\ sPhase' = "workspace"
    /\ wConversationId' = sItems.conversationId
    /\ UNCHANGED <<sItems, sStore, sProject, sEvent, sSent>>
    /\ UNCHANGED nonSessionVars

\* handleChatSubmit posts {conversationId: conversationId || undefined,
\* isIterativeUpdate: true, userId: "anonymous"}; with an id the server
\* pushes a turn to that conversation, without one it saves a new
\* conversation; it ends the stream with the complete event, or fails
ChatSubmit ==
    /\ sPhase = "workspace"
    /\ FollowUps < MaxFollowUps
    /\ sSent' = Append(sSent, [conversationId |-> wConversationId,
                               project |-> sProject.number,
                               conversation |-> sProject.conversation])
    /\ \/ IF wConversationId # 0
          THEN /\ sStore' = [sStore EXCEPT ![wConversationId].turns = @ + 1]
               /\ sEvent' = [type |-> "complete",
                             conversationId |-> wConversationId]
          ELSE /\ sStore' = Append(sStore, [userId |-> "anonymous", turns |-> 1])
               /\ sEvent' = [type |-> "complete",
                             conversationId |-> Len(sStore) + 1]
       \/ /\ sEvent' = [type |-> "error"]
          /\ UNCHANGED sStore
    /\ sPhase' = "chatting"
    /\ UNCHANGED <<sItems, wConversationId, sProject>>
    /\ UNCHANGED nonSessionVars

\* the workspace reads the last event: the complete event's conversationId
\* becomes its conversationId and the item conversationId
ChatComplete ==
    /\ sPhase = "chatting"
    /\ IF sEvent.type = "complete"
       THEN /\ wConversationId' = sEvent.conversationId
            /\ sItems' = [sItems EXCEPT !.conversationId = sEvent.conversationId]
       ELSE UNCHANGED <<wConversationId, sItems>>
    /\ sEvent' = NoEvent
    /\ sPhase' = "workspace"
    /\ UNCHANGED <<sStore, sProject, sSent>>
    /\ UNCHANGED nonSessionVars

\* handleNewPrompt: the items are removed, conversationId is set to null and
\* the start page is opened
HandleNewPrompt ==
    /\ sPhase = "workspace"
    /\ sItems' = NoItems
    /\ wConversationId' = 0
    /\ sPhase' = "start"
    /\ UNCHANGED <<sStore, sProject, sEvent, sSent>>
    /\ UNCHANGED nonSessionVars

SessionNext ==
    \/ StreamingGenerate
    \/ PageComplete
    \/ HandleBack
    \/ WorkspaceLoad
    \/ ChatSubmit
    \/ ChatComplete
    \/ HandleNewPrompt

SpecSession == SessionInit /\ [][SessionNext]_vars

\* C28: every follow-up request sent from the workspace carries the id of
\* the conversation that the initial generation of its project created,
\* and there is at most one conversation per project.
C28_FollowUpsContinueTheConversation ==
    /\ \A i \in 1..Len(sSent) : sSent[i].conversationId = sSent[i].conversation
    /\ Len(sStore) <= sProject.number

(***************************************************************************)
(* The read loops on their own: the loop of the streaming task over the    *)
(* provider's stream, and the loops of the streaming page and of the       *)
(* workspace over the event stream.  A stream is the sequence of its       *)
(* characters, which the network hands over in chunks of any length.       *)
(***************************************************************************)
\* "data: "
DataPrefix ==
    <<"d", "a", "t", "a", ":", " ">>
\* "[DONE]"
DoneText ==
    <<"[", "D", "O", "N", "E", "]">>
\* "event: ping"
EventLine ==
    <<"e", "v", "e", "n", "t", ":", " ", "p", "i", "n", "g">>
TypeKey ==
    <<"t", "y", "p", "e">>
DeltaKey ==
    <<"d", "e", "l", "t", "a">>
TextKey ==
    <<"t", "e", "x", "t">>
FileNameKey ==
    <<"f", "i", "l", "e", "N", "a", "m", "e">>
ContentKey ==
    <<"c", "o", "n", "t", "e", "n", "t">>
ContentBlockDelta ==
    <<"c", "o", "n", "t", "e", "n", "t", "_", "b", "l", "o", "c", "k", "_",
      "d", "e", "l", "t", "a">>
PingType ==
    <<"p", "i", "n", "g">>
StatusType ==
    <<"s", "t", "a", "t", "u", "s">>
FileType ==
    <<"f", "i", "l", "e">>
CompleteType ==
    <<"c", "o", "m", "p", "l", "e", "t", "e">>
ErrorType ==
    <<"e", "r", "r", "o", "r">>

\* frames written to one stream
MaxFrames == 2

\* "chars" with the quotes
JsonString(chars) == <<Quote>> \o chars \o <<Quote>>

\* data: {"type":"content_block_delta","delta":{"text":t}}
DeltaFrame(t) ==
    DataPrefix \o <<"{">> \o JsonString(TypeKey) \o <<":">>
        \o JsonString(ContentBlockDelta) \o <<",">> \o JsonString(DeltaKey)
        \o <<":", "{">> \o JsonString(TextKey) \o <<":">> \o JsonString(t)
        \o <<"}", "}">>

\* data: {"type":t}
TypeFrame(t) ==
    DataPrefix \o <<"{">> \o JsonString(TypeKey) \o <<":">> \o JsonString(t)
        \o <<"}">>

\* sendData({type: "file", fileName, content})
FileFrame(fileName, content) ==
    DataPrefix \o <<"{">> \o JsonString(TypeKey) \o <<":">>
        \o JsonString(FileType) \o <<",">> \o JsonString(FileNameKey)
        \o <<":">> \o JsonString(fileName) \o <<",">>
        \o JsonString(ContentKey) \o <<":">> \o JsonString(content) \o <<"}">>

\* what the provider writes: a frame is a line and an empty line; delta is
\* the text of a content_block_delta frame, empty for every other frame
UpstreamFrames ==
    {[line |-> DeltaFrame(<<t>>), delta |-> <<t>>] : t \in {"a", "b"}}
    \cup {[line |-> TypeFrame(PingType), delta |-> << >>],
          [line |-> DataPrefix \o DoneText, delta |-> << >>],
          [line |-> EventLine, delta |-> << >>],
          [line |-> DataPrefix \o <<"{">>, delta |-> << >>]}

\* what sendData writes: data: <JSON> and an empty line
DownstreamFrames ==
    {[line |-> TypeFrame(t), type |-> t] :
        t \in {StatusType, CompleteType, ErrorType}}
    \cup {[line |-> FileFrame(<<"/", "a">>, <<"x">>), type |-> FileType]}

RECURSIVE Written(_)
\* the characters of the frames, each followed by "\n\n"
Written(frames) ==
    IF frames = << >> THEN << >>
    ELSE Head(frames).line \o <<Newline, Newline>> \o Written(Tail(frames))

FrameSeqs(F) == UNION {[1..n -> F] : n \in 1..MaxFrames}

RECURSIVE Split(_, _)
\* text.split(sep)
Split(text, sep) ==
    LET at == IndexOf(text, sep, 1)
    IN  IF at = 0 THEN <<text>>
        ELSE <<SubSeq(text, 1, at - 1)>>
                \o Split(SubSeq(text, at + Len(sep), Len(text)), sep)

\* line.slice(6)
Slice6(line) == SubSeq(line, 7, Len(line))

\* parsed[key] of a parsed value: undefined for what is no object or has no
\* such property
Undef == Value("undefined", << >>, << >>)

Property(value, key) ==
    IF value.kind = "object" /\ key \in KeySet(value.items)
    THEN Get(value.items, key)
    ELSE Undef

\* the truthiness of a parsed value
TruthyValue(value) ==
    /\ value.kind \notin {"undefined", "null"}
    /\ value.kind = "string" => value.chars # << >>
    /\ value.kind = "boolean" => value.chars = TrueText

\* the body of the server's forEach for one line: the text appended to
\* fullResponse and sent as progress event, if any
DeltaOf(line) ==
    IF ~StartsWith(line, 1, DataPrefix) THEN << >>
    ELSE IF Slice6(line) = DoneText THEN << >>
    ELSE LET parsed == JSONParse(Slice6(line))
             text == Property(Property(parsed.value, DeltaKey), TextKey)
         IN  IF /\ parsed.ok
                /\ Property(parsed.value, TypeKey)
                        = Value("string", ContentBlockDelta, << >>)
                /\ TruthyValue(text)
             THEN <<StringOf(text)>>
             ELSE << >>

RECURSIVE DeltasOf(_)
\* chunk.split("\n").forEach(...) for the lines of one chunk
DeltasOf(lines) ==
    IF lines = << >> THEN << >>
    ELSE DeltaOf(Head(lines)) \o DeltasOf(Tail(lines))

RECURSIVE Concat(_)
Concat(texts) ==
    IF texts = << >> THEN << >> ELSE Head(texts) \o Concat(Tail(texts))

\* the mutant of EventOf that reports a payload JSON.parse rejects as an
\* error event
EventOfUnparsedAsError(line, reader) ==
    IF ~StartsWith(line, 1, DataPrefix) THEN << >>
    ELSE IF reader = "workspace" /\ Slice6(line) = DoneText THEN << >>
    ELSE LET parsed == JSONParse(Slice6(line))
             type == Property(parsed.value, TypeKey)
         IN  IF ~parsed.ok THEN <<ErrorType>>
             ELSE IF type.kind # "string" THEN << >>
             ELSE IF type.chars = FileType
             THEN IF /\ TruthyValue(Property(parsed.value, FileNameKey))
                     /\ TruthyValue(Property(parsed.value, ContentKey))
                  THEN <<type.chars>> ELSE << >>
             ELSE <<type.chars>>

\* the event a client handles for one line of the page, or one block of the
\* workspace: the type of the parsed payload.  A file event counts when
\* fileName and content are truthy; the workspace skips [DONE].
EventOf(line, reader) ==
    IF ~StartsWith(line, 1, DataPrefix) THEN << >>
    ELSE IF reader = "workspace" /\ Slice6(line) = DoneText THEN << >>
    ELSE LET parsed == JSONParse(Slice6(line))
             type == Property(parsed.value, TypeKey)
         IN  IF ~parsed.ok \/ type.kind # "string" THEN << >>
             ELSE IF type.chars = FileType
             THEN IF /\ TruthyValue(Property(parsed.value, FileNameKey))
                     /\ TruthyValue(Property(parsed.value, ContentKey))
                  THEN <<type.chars>> ELSE << >>
             ELSE <<type.chars>>

RECURSIVE EventsOf(_, _)
EventsOf(lines, reader) ==
    IF lines = << >> THEN << >>
    ELSE EventOf(Head(lines), reader) \o EventsOf(Tail(lines), reader)

UpstreamInit ==
    /\ kReader = "server"
    /\ kFrames \in FrameSeqs(UpstreamFrames)
    /\ kStream = Written(kFrames)
    /\ kPos = 0
    /\ kBuffer = << >>
    /\ fullResponse = << >>
    /\ kOut = << >>
    /\ kDone = FALSE
    /\ kCut = FALSE
    /\ ServerIdle
    /\ DiffIdle
    /\ RetryIdle
    /\ ExtractIdle
    /\ RevealIdle
    /\ ClientIdle
    /\ MongoIdle
    /\ TimerIdle
    /\ StartIdle
    /\ PersistIdle
    /\ GetIdle
    /\ SessionIdle

DownstreamInit ==
    /\ kReader \in {"page", "workspace"}
    /\ kFrames \in FrameSeqs(DownstreamFrames)
    /\ kStream = Written(kFrames)
    /\ kPos = 0
    /\ kBuffer = << >>
    /\ fullResponse = << >>
    /\ kOut = << >>
    /\ kDone = FALSE
    /\ kCut = FALSE
    /\ ServerIdle
    /\ DiffIdle
    /\ RetryIdle
    /\ ExtractIdle
    /\ RevealIdle
    /\ ClientIdle
    /\ MongoIdle
    /\ TimerIdle
    /\ StartIdle
    /\ PersistIdle
    /\ GetIdle
    /\ SessionIdle

\* the chunk of n characters that reader.read() yields next
Chunk(n) == SubSeq(kStream, kPos + 1, kPos + n)

\* the chunk of n characters ends inside a line, not after a "\n"
Cuts(n) == kStream[kPos + n] # Newline

\* the streaming task reads a chunk: it is split at "\n" and every line is
\* handled by itself; nothing of the chunk is kept for the next one
ServerRead ==
    /\ kReader = "server"
    /\ ~kDone
    /\ \E n \in 1..(Len(kStream) - kPos) :
        LET texts == DeltasOf(Split(Chunk(n), <<Newline>>))
        IN  /\ kPos' = kPos + n
            /\ fullResponse' = fullResponse \o Concat(texts)
            /\ kOut' = kOut \o texts
            /\ kCut' = (kCut \/ Cuts(n))
    /\ UNCHANGED <<kReader, kFrames, kStream, kBuffer, kDone>>
    /\ UNCHANGED nonChunkVars

\* the streaming page reads a chunk: it is split at "\n" and every line is
\* handled by itself
PageRead ==
    /\ kReader = "page"
    /\ ~kDone
    /\ \E n \in 1..(Len(kStream) - kPos) :
        /\ kPos' = kPos + n
        /\ kOut' = kOut \o EventsOf(Split(Chunk(n), <<Newline>>), "page")
        /\ kCut' = (kCut \/ Cuts(n))
    /\ UNCHANGED <<kReader, kFrames, kStream, kBuffer, fullResponse, kDone>>
    /\ UNCHANGED nonChunkVars

\* the workspace reads a chunk: buffer += chunk; lines =
\* buffer.split("\n\n"); buffer = lines.pop() || ""; the lines are handled
WorkspaceRead ==
    /\ kReader = "workspace"
    /\ ~kDone
    /\ \E n \in 1..(Len(kStream) - kPos) :
        LET lines == Split(kBuffer \o Chunk(n), <<Newline, Newline>>)
        IN  /\ kPos' = kPos + n
            /\ kBuffer' = lines[Len(lines)]
            /\ kOut' = kOut \o EventsOf(SubSeq(lines, 1, Len(lines) - 1),
                                        "workspace")
            /\ kCut' = (kCut \/ Cuts(n))
    /\ UNCHANGED <<kReader, kFrames, kStream, fullResponse, kDone>>
    /\ UNCHANGED nonChunkVars

\* reader.read() reports done
ReadEnds ==
    /\ ~kDone
    /\ kPos = Len(kStream)
    /\ kDone' = TRUE
    /\ UNCHANGED <<kReader, kFrames, kStream, kPos, kBuffer, fullResponse, kOut,
                   kCut>>
    /\ UNCHANGED nonChunkVars

UpstreamNext ==
    \/ ServerRead
    \/ ReadEnds

DownstreamNext ==
    \/ PageRead
    \/ WorkspaceRead
    \/ ReadEnds

SpecUpstream == UpstreamInit /\ [][UpstreamNext]_vars

SpecDownstream == DownstreamInit /\ [][DownstreamNext]_vars

\* the texts of the content_block_delta frames, in order
DeltaTexts == SelectSeq([i \in 1..Len(kFrames) |-> kFrames[i].delta],
                        LAMBDA t : t # << >>)

\* C29: when the provider's stream has been read to its end, fullResponse is
\* the concatenation, in order, of the texts of the content_block_delta
\* frames and one progress event was sent per such frame, however the
\* stream was split into chunks.
C29_BufferIsTheDeltas ==
    kDone =>
        /\ fullResponse = Concat(DeltaTexts)
        /\ kOut = DeltaTexts

\* C30: when the event stream has been read to its end, the events the
\* consumer handled are the events written to the stream, each once and in
\* order, however the stream was split into chunks; for the streaming page
\* and for the workspace.
C30_EventsWhateverTheChunks ==
    kDone => kOut = [i \in 1..Len(kFrames) |-> kFrames[i].type]

(***************************************************************************)
(* An event stream with frames whose payload is no JSON: a payload cut     *)
(* short and a payload with a character after its end.                     *)
(***************************************************************************)
MalformedFrames ==
    {[line |-> DataPrefix \o <<"{">>, type |-> << >>],
     [line |-> TypeFrame(StatusType) \o <<"}">>, type |-> << >>]}

WellFormedFrames ==
    {[line |-> TypeFrame(StatusType), type |-> StatusType],
     [line |-> FileFrame(<<"/", "a">>, <<"x">>), type |-> FileType]}

MalformedInit ==
    /\ kReader \in {"page", "workspace"}
    /\ kFrames \in FrameSeqs(MalformedFrames \cup WellFormedFrames)
    /\ kStream = Written(kFrames)
    /\ kPos = 0
    /\ kBuffer = << >>
    /\ fullResponse = << >>
    /\ kOut = << >>
    /\ kDone = FALSE
    /\ kCut = FALSE
    /\ ServerIdle
    /\ DiffIdle
    /\ RetryIdle
    /\ ExtractIdle
    /\ RevealIdle
    /\ ClientIdle
    /\ MongoIdle
    /\ TimerIdle
    /\ StartIdle
    /\ PersistIdle
    /\ GetIdle
    /\ SessionIdle

SpecMalformed == MalformedInit /\ [][DownstreamNext]_vars

\* the types of the frames of the stream whose payload is JSON, in order
WellFormedTypes ==
    SelectSeq([i \in 1..Len(kFrames) |-> kFrames[i].type],
              LAMBDA t : t # << >>)

\* every line of the stream so far reached the consumer as a line: the
\* workspace joins the chunks in its buffer, the page needs chunks that end
\* at the end of a line
LinesArriveWhole == kReader = "workspace" \/ ~kCut

\* C32: a frame whose payload is no JSON is skipped and the read loop goes
\* on: at every moment the events handled are events of the well-formed
\* frames, in order, none for the malformed frame, and when the stream has
\* been read to its end every well-formed frame was handled, those after a
\* malformed frame included.
C32_MalformedFrameSkipped ==
    LinesArriveWhole =>
        /\ \E n \in 0..Len(WellFormedTypes) : kOut = SubSeq(WellFormedTypes, 1, n)
        /\ kDone => kOut = WellFormedTypes

\* a malformed frame came first, a file event after it, and the file event
\* was handled
C32_Witness ==
    /\ kDone
    /\ kReader = "page"
    /\ ~kCut
    /\ Len(kFrames) = 2
    /\ kFrames[1].type = << >>
    /\ kFrames[2].type = FileType
    /\ kOut = <<FileType>>

(***************************************************************************)
(* The working map of a consumer (SpecClient): generatedFiles of the       *)
(* streaming page, streamedFiles of the workspace.                         *)
(***************************************************************************)
WorkingMap == IF consumer = "page" THEN workingFiles ELSE streamedFiles

\* the file event at position i is the last one of the stream so far that
\* names its file
LastForName(i) ==
    /\ delivered[i].type = "file"
    /\ \A j \in (i + 1)..Len(delivered) :
        delivered[j].type = "file" => delivered[j].fileName # delivered[i].fileName

\* C31: the working map of the consumer holds, for every fileName of a file
\* event it has read, the content of the last file event with that name,
\* the empty string included.
C31_LastWriteWins ==
    \A i \in 1..Len(delivered) :
        LastForName(i) =>
            Get(WorkingMap, delivered[i].fileName) = delivered[i].content

(***************************************************************************)
(* The display and the cursor of the reveal scheduler with fixed files     *)
(* (SpecReveal).                                                           *)
(***************************************************************************)
\* what displayed shows of the i-th file
ShownIn(displayed, i) ==
    IF mFiles[i].path \in KeySet(displayed)
    THEN Get(displayed, mFiles[i].path)
    ELSE << >>

\* a tick adds one character to the file at the cursor and changes the
\* display of no other file
TickReveals ==
    ticks' = ticks + 1 =>
        \A i \in 1..Len(mFiles) :
            ShownIn(displayedFiles', i) =
                IF i = currentFileIndex + 1
                THEN SubSeq(mFiles[i].content, 1, Len(Shown(i)) + 1)
                ELSE Shown(i)

\* the cursor moves from a file that is displayed in full to the next file
\* of the list, at character 0
AdvanceInOrder ==
    (mounted /\ currentFileIndex' # currentFileIndex) =>
        /\ currentFileIndex' = currentFileIndex + 1
        /\ currentCharIndex' = 0
        /\ Shown(currentFileIndex + 1) = mFiles[currentFileIndex + 1].content

\* C33: with fixed files, in every state of the scheduler what is displayed
\* of a file is a prefix of its content: the files before the cursor in
\* full, the file at the cursor up to the character index, the files behind
\* it not at all; a tick adds exactly one character to the file at the
\* cursor and to no other; the cursor goes through the files in list order
\* and starts each at character 0.
C33_RevealFollowsCursor ==
    /\ [](mounted => (currentFileIndex < Len(mFiles) /\ CursorAgrees))
    /\ [][TickReveals /\ AdvanceInOrder]_vars

\* the first of two files is displayed in full and the second up to its
\* first character, with more to come
C33_Witness ==
    /\ mounted
    /\ Len(mFiles) = 2
    /\ Len(mFiles[1].content) > 0
    /\ Len(mFiles[2].content) > 1
    /\ currentFileIndex = 1
    /\ currentCharIndex = 1
    /\ Shown(1) = mFiles[1].content
    /\ Shown(2) = SubSeq(mFiles[2].content, 1, 1)

(***************************************************************************)
(* The timeouts of one instance of MultiFileStreamingDisplay: the reveal   *)
(* timeout of the reveal effect and the timeout of copyToClipboard, with   *)
(* the refs that hold their ids.  A timeout is a record of its id, its     *)
(* kind, the currentCharIndex of its closure and the session it was set    *)
(* in.  The cursor is counted over all the files of a session.             *)
(***************************************************************************)
\* characters of the files of a session
MaxChars == 2
\* changes of the files prop
MaxResets == 1
\* clicks on a copy button
MaxCopies == 2
\* calls of setTimeout
MaxTimeouts == 5

Timeout(id, kind, charIndex) ==
    [id |-> id, kind |-> kind, charIndex |-> charIndex, epoch |-> tEpoch,
     mounted |-> tMounted]

\* clearTimeout(id): nothing happens for null and for an id that has fired
Cleared(pending, id) == {t \in pending : t.id # id}

\* the cleanup the reveal effect returned when it set a timeout:
\* clearTimeout(streamingTimerRef.current)
RevealCleanup(pending) == Cleared(pending, tStreamingRef)

\* a render of the mounted instance and its effects: the cleanup of the
\* last reveal effect, the reset effect when the files have changed
\* (reset), and the reveal effect with the currentCharIndex of the render
EffectsRun(reset) ==
    LET cleaned == RevealCleanup(tPending)
        sets == tCursor < MaxChars
    IN  /\ tPending' = IF sets
                       THEN cleaned \cup {Timeout(tNextId, "reveal", tCursor)}
                       ELSE cleaned
        /\ tStreamingRef' = IF sets THEN tNextId ELSE 0
        /\ tNextId' = IF sets THEN tNextId + 1 ELSE tNextId
        /\ tCursor' = IF reset THEN 0 ELSE tCursor
        /\ tNeedsRender' = reset

TimerInit ==
    /\ TimerIdle
    /\ StartIdle
    /\ PersistIdle
    /\ ServerIdle
    /\ DiffIdle
    /\ RetryIdle
    /\ ExtractIdle
    /\ RevealIdle
    /\ ClientIdle
    /\ MongoIdle
    /\ GetIdle
    /\ SessionIdle
    /\ ChunkIdle

\* the instance is mounted: its first render and effects
TimerMount ==
    /\ ~tMounted
    /\ tNextId = 1
    /\ tMounted' = TRUE
    /\ tPending' = {[id |-> 1, kind |-> "reveal", charIndex |-> 0,
                     epoch |-> 0, mounted |-> TRUE]}
    /\ tStreamingRef' = 1
    /\ tNextId' = 2
    /\ UNCHANGED <<tEpoch, tCopyRef, tCursor, tNeedsRender, tCopying, tTicked,
                   tDouble, tLate>>
    /\ UNCHANGED nonTimerVars

\* a render of the mounted instance, scheduled by a state change or made by
\* the parent
TimerRender ==
    /\ tMounted
    /\ tNextId <= MaxTimeouts
    /\ EffectsRun(FALSE)
    /\ UNCHANGED <<tMounted, tEpoch, tCopyRef, tCopying, tTicked, tDouble, tLate>>
    /\ UNCHANGED nonTimerVars

\* the parent renders the instance with other files: a session reset.  The
\* reveal effect of that render still has the currentCharIndex of the old
\* session; the state the reset effect sets is there in the next render
TimerReset ==
    /\ tMounted
    /\ tEpoch < MaxResets
    /\ tNextId <= MaxTimeouts
    /\ tEpoch' = tEpoch + 1
    /\ EffectsRun(TRUE)
    /\ UNCHANGED <<tMounted, tCopyRef, tCopying, tTicked, tDouble, tLate>>
    /\ UNCHANGED nonTimerVars

\* a reveal timeout fires: setDisplayedFiles with the slice up to the
\* charIndex of its closure, setCurrentCharIndex
RevealTimeout ==
    /\ \E t \in tPending :
        /\ t.kind = "reveal"
        /\ ~tNeedsRender
        /\ tPending' = tPending \ {t}
        /\ tCursor' = IF tMounted THEN tCursor + 1 ELSE tCursor
        /\ tNeedsRender' = tMounted
        /\ tTicked' = tTicked \cup {<<t.epoch, t.charIndex>>}
        /\ tDouble' = (tDouble \/ <<t.epoch, t.charIndex>> \in tTicked)
        /\ tLate' = IF ~tMounted \/ t.epoch < tEpoch THEN tLate + 1 ELSE tLate
    /\ UNCHANGED <<tMounted, tEpoch, tStreamingRef, tCopyRef, tNextId, tCopying>>
    /\ UNCHANGED nonTimerVars

\* a copy button is clicked: copyToClipboard runs up to its await
CopyToClipboard ==
    /\ tMounted
    /\ tCopying < MaxCopies
    /\ tNextId + tCopying < MaxTimeouts
    /\ tCopying' = tCopying + 1
    /\ UNCHANGED <<tMounted, tEpoch, tPending, tStreamingRef, tCopyRef, tNextId,
                   tCursor, tNeedsRender, tTicked, tDouble, tLate>>
    /\ UNCHANGED nonTimerVars

\* writeText is fulfilled: setCopiedFile, the copy timeout that is set is
\* cleared and a new one set; the instance may be gone by now
CopyWritten ==
    /\ tCopying > 0
    /\ tCopying' = tCopying - 1
    /\ tPending' = Cleared(tPending, tCopyRef)
                        \cup {Timeout(tNextId, "copy", 0)}
    /\ tCopyRef' = tNextId
    /\ tNextId' = tNextId + 1
    /\ tNeedsRender' = (tNeedsRender \/ tMounted)
    /\ UNCHANGED <<tMounted, tEpoch, tStreamingRef, tCursor, tTicked, tDouble,
                   tLate>>
    /\ UNCHANGED nonTimerVars

\* writeText is rejected: the catch logs
CopyFailed ==
    /\ tCopying > 0
    /\ tCopying' = tCopying - 1
    /\ UNCHANGED <<tMounted, tEpoch, tPending, tStreamingRef, tCopyRef, tNextId,
                   tCursor, tNeedsRender, tTicked, tDouble, tLate>>
    /\ UNCHANGED nonTimerVars

\* a copy timeout fires: setCopiedFile(null), copyTimerRef.current = null
CopyTimeout ==
    /\ \E t \in tPending :
        /\ t.kind = "copy"
        /\ tPending' = tPending \ {t}
        /\ tLate' = IF ~tMounted THEN tLate + 1 ELSE tLate
    /\ tCopyRef' = 0
    /\ tNeedsRender' = (tNeedsRender \/ tMounted)
    /\ UNCHANGED <<tMounted, tEpoch, tStreamingRef, tNextId, tCursor, tCopying,
                   tTicked, tDouble>>
    /\ UNCHANGED nonTimerVars

\* the instance is unmounted: the cleanup of the reveal effect, and the
\* cleanup of the last effect, which clears the timeouts of both refs
TimerUnmount ==
    /\ tMounted
    /\ tMounted' = FALSE
    /\ tPending' = Cleared(RevealCleanup(tPending), tCopyRef)
    /\ tStreamingRef' = 0
    /\ tNeedsRender' = FALSE
    /\ UNCHANGED <<tEpoch, tCopyRef, tNextId, tCursor, tCopying, tTicked,
                   tDouble, tLate>>
    /\ UNCHANGED nonTimerVars

TimerNext ==
    \/ TimerMount
    \/ TimerRender
    \/ TimerReset
    \/ RevealTimeout
    \/ CopyToClipboard
    \/ CopyWritten
    \/ CopyFailed
    \/ CopyTimeout
    \/ TimerUnmount

SpecTimer == TimerInit /\ [][TimerNext]_vars

\* C34: at most one reveal timeout is set at a time and no two reveal ticks
\* run for the same cursor state; no reveal timeout fires in a later session
\* than the one it was set in, and no timeout, reveal or copy, fires once
\* the instance is unmounted, also not one set by a copyToClipboard that
\* was awaiting writeText at the unmount.
C34_NoTimeoutAfterTeardown ==
    /\ Cardinality({t \in tPending : t.kind = "reveal"}) <= 1
    /\ ~tDouble
    /\ tLate = 0

(***************************************************************************)
(* The candidate span of extractAndParseJSON (SpecExtract).                *)
(***************************************************************************)
\* the text is the serialisation of the file state it was made from, bare,
\* with or without prose around it
BareWraps == {"bare", "bare, prose", "prose, bare, braces"}

\* C35: when the text has no fenced json block, the span taken from it goes
\* from the first opening brace to the brace that closes it, braces inside
\* string literals not counted and escaped quotes not ending a literal;
\* what follows the closing brace is left out.  For the serialisation of a
\* file state with prose around it, the span is the serialisation.
C35_SpanIsTheObject ==
    (/\ xOut # Pending
     /\ xFrom # EmptyFiles
     /\ ~CodeBlockMatch(xText).matched) =>
        \A w \in BareWraps :
            xText = Wrap(w, Serialize(xFrom)) =>
                Extracted(xText) = Serialize(xFrom)

\* a content with braces and a quote, prose before the object and prose
\* with braces and a quote behind it
C35_Witness ==
    /\ xOut # Pending
    /\ ~CodeBlockMatch(xText).matched
    /\ Len(xFrom) = 2
    /\ xFrom[1].content = <<"{", Quote, "}">>
    /\ xFrom[2].content = <<Backslash>>
    /\ xText = Wrap("prose, bare, braces", Serialize(xFrom))
    /\ Extracted(xText) = Serialize(xFrom)

(***************************************************************************)
(* The persistence of POST on its own, for requests that run together:     *)
(* a request reads its document with findById, awaits the provider, and    *)
(* then computes its turn and saves.  The update conversation.save() sends *)
(* for a document that was read pushes the new element of                  *)
(* conversationTurns and sets currentFiles, in the document with the _id   *)
(* of the one that was read; the save of a new document inserts it.        *)
(***************************************************************************)
\* requests received over a run
MaxWrites == 2
\* conversations in the collection when the first of them arrives
MaxConversations == 2

\* the file states extracted from the provider's answers, and the
\* existingFiles of the requests: the paths matter here, not the contents
WrittenFileStates ==
    {<<Entry(PathNames[i], ContentNames[1])>> : i \in 1..NumPaths}

SentFileStates == {<<Entry(PathNames[1], ContentNames[1])>>}

\* the number of turns in the collection
RECURSIVE TotalTurns(_)
TotalTurns(st) ==
    IF st = << >> THEN 0
    ELSE Len(Head(st).conversationTurns) + TotalTurns(Tail(st))

\* the mutant of StoreAfterPush that updates the document stored last
StoreAfterPushToLast(st, id, turn) ==
    [st EXCEPT ![Len(st)] =
        [@ EXCEPT !.conversationTurns = Append(@, turn),
                  !.currentFiles = turn.fullState]]

\* the collection after the save of a document that was read
StoreAfterPush(st, id, turn) ==
    [st EXCEPT ![id] =
        [@ EXCEPT !.conversationTurns = Append(@, turn),
                  !.currentFiles = turn.fullState]]

\* the collection after the save of a new document
StoreAfterInsert(st, turn) ==
    Append(st, [conversationTurns |-> <<turn>>, currentFiles |-> turn.fullState])

\* the collections earlier requests have left: conversations of one turn
StoresAtStart ==
    UNION {[1..n -> {[conversationTurns |-> <<Turn(AllNew(f), f)>>,
                      currentFiles |-> f] : f \in WrittenFileStates}] :
            n \in 0..MaxConversations}

PersistInit ==
    /\ pStore \in StoresAtStart
    /\ pReq = [w \in Writers |-> NoWrite]
    /\ pCount = 0
    /\ pSupplied = {}
    /\ ServerIdle
    /\ DiffIdle
    /\ RetryIdle
    /\ ExtractIdle
    /\ RevealIdle
    /\ ClientIdle
    /\ MongoIdle
    /\ GetIdle
    /\ SessionIdle
    /\ ChunkIdle
    /\ TimerIdle
    /\ StartIdle

\* POST up to its first await after the body: findById when the request is
\* an iterative update with a conversationId (the id names a document, or
\* the request ends with 404)
PersistFind(w) ==
    /\ pReq[w].pc \in {"idle", "done"}
    /\ pCount < MaxWrites
    /\ pCount' = pCount + 1
    /\ \E iterative \in BOOLEAN, id \in 0..Len(pStore),
          existing \in {[given |-> FALSE, files |-> EmptyFiles]}
                        \cup [given : {TRUE}, files : SentFileStates] :
        LET found == iterative /\ id # 0
        IN  pReq' = [pReq EXCEPT ![w] =
                [pc |-> "fetch", isIterativeUpdate |-> iterative,
                 existingFiles |-> existing,
                 found |-> found, id |-> IF found THEN id ELSE 0,
                 currentFiles |-> IF found THEN pStore[id].currentFiles
                                  ELSE EmptyFiles,
                 newFiles |-> EmptyFiles,
                 turn |-> NoWrite.turn,
                 seen |-> TotalTurns(pStore), overlapped |-> FALSE]]
    /\ UNCHANGED <<pStore, pSupplied>>
    /\ UNCHANGED nonPersistVars

\* the answer of the provider is there: previousFiles, fullFileState and
\* fileChanges are computed and the document is saved
PersistSave(w) ==
    /\ pReq[w].pc = "fetch"
    /\ \E newFiles \in WrittenFileStates :
        LET q == pReq[w]
            previousFiles == IF q.existingFiles.given THEN q.existingFiles.files
                             ELSE q.currentFiles
            fullFileState == Spread(previousFiles, newFiles)
            fileChanges == detectFileChanges(previousFiles, newFiles)
            turn == IF q.isIterativeUpdate /\ q.found
                    THEN Turn(fileChanges, fullFileState)
                    ELSE Turn(AllNew(newFiles), fullFileState)
        IN  /\ pStore' = IF q.isIterativeUpdate /\ q.found
                         THEN StoreAfterPush(pStore, q.id, turn)
                         ELSE StoreAfterInsert(pStore, turn)
            /\ pReq' = [pReq EXCEPT ![w] =
                    [q EXCEPT !.pc = "done", !.turn = turn,
                              !.newFiles = newFiles,
                              !.id = IF q.found THEN q.id ELSE Len(pStore) + 1,
                              !.overlapped = (TotalTurns(pStore) # q.seen)]]
            /\ pSupplied' = IF q.existingFiles.given
                            THEN pSupplied \cup
                                    {IF q.found THEN q.id ELSE Len(pStore) + 1}
                            ELSE pSupplied
    /\ UNCHANGED pCount
    /\ UNCHANGED nonPersistVars

\* the provider, the extraction or the save fails: nothing is written
PersistFail(w) ==
    /\ pReq[w].pc = "fetch"
    /\ pReq' = [pReq EXCEPT ![w] = [@ EXCEPT !.pc = "done", !.found = FALSE,
                                              !.id = 0]]
    /\ UNCHANGED <<pStore, pCount, pSupplied>>
    /\ UNCHANGED nonPersistVars

PersistNext ==
    \/ \E w \in Writers : PersistFind(w)
    \/ \E w \in Writers : PersistSave(w)
    \/ \E w \in Writers : PersistFail(w)

SpecPersist == PersistInit /\ [][PersistNext]_vars

\* the request of slot w appends its turn to its document in this step
Appends(w) ==
    /\ pReq[w].pc = "fetch"
    /\ pReq'[w].pc = "done"
    /\ pReq[w].isIterativeUpdate
    /\ pReq[w].found
    /\ pStore' # pStore

\* C36: a request that appends a turn to a conversation leaves the turns
\* that conversation already has as they are and in their order, the new
\* turn coming last, and leaves the turns and currentFiles of every other
\* conversation as they are; no step removes a conversation or changes two,
\* however the requests for different conversations interleave.
C36_AppendTouchesOneConversation ==
    [][/\ Len(pStore') >= Len(pStore)
       /\ \A id \in 1..Len(pStore) :
            /\ Len(pStore'[id].conversationTurns)
                    >= Len(pStore[id].conversationTurns)
            /\ SubSeq(pStore'[id].conversationTurns, 1,
                      Len(pStore[id].conversationTurns))
                    = pStore[id].conversationTurns
       /\ \A w \in Writers :
            Appends(w) =>
                /\ pStore'[pReq[w].id].conversationTurns
                     = Append(pStore[pReq[w].id].conversationTurns, pReq'[w].turn)
                /\ Len(pStore') = Len(pStore)
                /\ \A id \in 1..Len(pStore) :
                        id # pReq[w].id => pStore'[id] = pStore[id]]_vars

\* two requests have appended to two conversations, each after the other
\* had read its document and while the other had not yet saved
C36_Witness ==
    /\ Len(pStore) = 2
    /\ pReq[1].pc = "done" /\ pReq[2].pc = "done"
    /\ pReq[1].isIterativeUpdate /\ pReq[2].isIterativeUpdate
    /\ pReq[1].found /\ pReq[2].found
    /\ pReq[1].id # pReq[2].id
    /\ pReq[1].overlapped
    /\ Len(pStore[1].conversationTurns) = 2
    /\ Len(pStore[2].conversationTurns) = 2

(***************************************************************************)
(* What the two paths of POST report and what they persist (Spec).         *)
(***************************************************************************)
\* the element of conversationTurns the save of the request has stored
PersistedTurn(r) ==
    LET turns == store[conversation[r].id].conversationTurns
    IN  turns[Len(turns)]

\* the complete event the request has sent
CompleteSent(r) ==
    LET at == CHOOSE i \in 1..Len(events[r]) : events[r][i].type = "complete"
    IN  events[r][at]

\* C37: for one request and one answer of the provider, the complete event
\* of the streaming path and the response of the non-streaming path carry
\* the same fullFiles and the same changedFiles, and the fullFiles a
\* request reports is the fullState of the turn it has persisted, also for
\* a request that is no iterative update and supplies existingFiles.
C37_PathsAgree ==
    \A r \in Reqs :
        saved[r] = "ok" =>
            /\ CompleteEvent(r).fullFiles
                    = JsonResponse(r, conversation[r].id).fullFiles
            /\ CompleteEvent(r).changedFiles
                    = JsonResponse(r, conversation[r].id).changedFiles
            /\ HasEvent(r, "complete") =>
                    CompleteSent(r).fullFiles = PersistedTurn(r).fullState
            /\ (~body[r].streaming /\ response[r].status = 200) =>
                    response[r].fullFiles = PersistedTurn(r).fullState

\* C38: the fileChanges of the turn a request has persisted are the
\* changedFiles it reports to the client, in the complete event or in the
\* response, whether the request created the conversation or appended to it.
C38_StoredChangesAreReported ==
    \A r \in Reqs :
        saved[r] = "ok" =>
            /\ HasEvent(r, "complete") =>
                    PersistedTurn(r).fileChanges = CompleteSent(r).changedFiles
            /\ (~body[r].streaming /\ response[r].status = 200) =>
                    PersistedTurn(r).fileChanges = response[r].changedFiles

(***************************************************************************)
(* The full state of a request and the keys of currentFiles (SpecPersist). *)
(***************************************************************************)
\* the state the full state of the request of slot w was computed from
PreviousOf(w) ==
    IF pReq[w].existingFiles.given THEN pReq[w].existingFiles.files
    ELSE pReq[w].currentFiles

\* full is previous overlaid with extracted
Overlays(full, previous, extracted) ==
    /\ KeySet(full) = KeySet(previous) \cup KeySet(extracted)
    /\ \A p \in KeySet(extracted) : Get(full, p) = Get(extracted, p)
    /\ \A p \in KeySet(previous) \ KeySet(extracted) :
            Get(full, p) = Get(previous, p)

\* C39: the full state a request persists is the state it was computed
\* from (existingFiles when supplied, otherwise the currentFiles of its
\* conversation, otherwise nothing) overlaid with the extracted files, so
\* it has every path of that state; and the keys of the currentFiles of a
\* conversation that no request with existingFiles has written only grow.
C39_KeysOnlyGrow ==
    /\ [](\A w \in Writers :
            (pReq[w].pc = "done" /\ pReq[w].id # 0) =>
                Overlays(pReq[w].turn.fullState, PreviousOf(w), pReq[w].newFiles))
    /\ [][\A id \in 1..Len(pStore) :
            id \notin pSupplied' =>
                KeySet(pStore[id].currentFiles)
                    \subseteq KeySet(pStore'[id].currentFiles)]_vars

(***************************************************************************)
(* StreamingPage: the effect that starts the generation                    *)
(***************************************************************************)
\* changes of the search parameters, of sessionStorage and unmounts
MaxPageChanges == 3

Percent == "%"

\* the values of the prompt search parameter: absent, two prompts, an
\* escaped blank and a lone percent sign
UrlPrompts == {<< >>, <<"a">>, <<"b">>, <<Percent, "2", "0">>, <<Percent>>}

\* the values of currentPrompt in sessionStorage: absent or a prompt
StoredPrompts == {<< >>, <<"b">>}

\* an uploadedFiles value: absent, the JSON of one file, the JSON of an
\* empty array, or text that is no JSON
FileTexts == {"none", "one", "empty", "bad"}

StartParams == [prompt : UrlPrompts, files : FileTexts]

StartSessions == [prompt : StoredPrompts, files : {"none", "one", "bad"}]

\* decodeURIComponent from position i on: %20 is a blank, and a percent
\* sign that two hexadecimal digits do not follow throws URIError (of the
\* escapes only %20 occurs in UrlPrompts)
RECURSIVE DecodeFrom(_, _)
DecodeFrom(text, i) ==
    IF i > Len(text) THEN [threw |-> FALSE, value |-> << >>]
    ELSE IF text[i] # Percent
    THEN LET rest == DecodeFrom(text, i + 1)
         IN  [threw |-> rest.threw, value |-> <<text[i]>> \o rest.value]
    ELSE IF i + 2 <= Len(text) /\ text[i + 1] = "2" /\ text[i + 2] = "0"
    THEN LET rest == DecodeFrom(text, i + 3)
         IN  [threw |-> rest.threw, value |-> <<" ">> \o rest.value]
    ELSE [threw |-> TRUE, value |-> << >>]

DecodeURIComponent(text) == DecodeFrom(text, 1)

\* JSON.parse of an uploadedFiles text succeeds
ParsesFiles(text) == text \in {"one", "empty"}

\* the array JSON.parse gives
ParsedFiles(text) == IF text = "one" THEN <<"f">> ELSE << >>

\* the start effect without its guard: every run with a prompt starts
EffectOutcomeUnguarded(startedRef, params, session) ==
    LET decoded    == DecodeURIComponent(params.prompt)
        fromUrl    == IF params.prompt # << >> THEN decoded.value ELSE << >>
        urlFiles   == IF ParsesFiles(params.files)
                      THEN ParsedFiles(params.files) ELSE << >>
        useStored  == Len(urlFiles) = 0 /\ ParsesFiles(session.files)
        finalPrompt == IF fromUrl # << >> THEN fromUrl ELSE session.prompt
        finalFiles == IF useStored THEN ParsedFiles(session.files)
                      ELSE urlFiles
    IN  [returned    |-> FALSE,
         threw       |-> params.prompt # << >> /\ decoded.threw,
         finalPrompt |-> finalPrompt,
         finalFiles  |-> finalFiles,
         setsFiles   |-> useStored \/ ParsesFiles(params.files),
         start       |-> finalPrompt # << >>]

\* one run of the start effect: it returns at once when the ref is set;
\* the prompt is the decoded search parameter or else the stored one, the
\* files are the parsed search parameter or, when that gives none, the
\* stored ones; the generation starts when there is a prompt and the ref
\* is not set
EffectOutcome(startedRef, params, session) ==
    LET decoded    == DecodeURIComponent(params.prompt)
        fromUrl    == IF params.prompt # << >> THEN decoded.value ELSE << >>
        urlFiles   == IF ParsesFiles(params.files)
                      THEN ParsedFiles(params.files) ELSE << >>
        useStored  == Len(urlFiles) = 0 /\ ParsesFiles(session.files)
        finalPrompt == IF fromUrl # << >> THEN fromUrl ELSE session.prompt
        finalFiles == IF useStored THEN ParsedFiles(session.files)
                      ELSE urlFiles
    IN  [returned    |-> startedRef,
         threw       |-> ~startedRef /\ params.prompt # << >> /\ decoded.threw,
         finalPrompt |-> finalPrompt,
         finalFiles  |-> finalFiles,
         setsFiles   |-> useStored \/ ParsesFiles(params.files),
         start       |-> finalPrompt # << >> /\ ~startedRef]

FreshPageState == [prompt |-> << >>, uploadedFiles |-> << >>,
                   error |-> "", isGenerating |-> TRUE]

StartInit ==
    /\ pageMounted = FALSE
    /\ searchParams = NoStartInput
    /\ sessionItems \in StartSessions
    /\ effectPending = FALSE
    /\ generationStartedRef = FALSE
    /\ pageState = FreshPageState
    /\ fetchStarts = 0
    /\ effectRuns = 0
    /\ startRequest = NoStartRequest
    /\ pageChanges = 0
    /\ TimerIdle
    /\ PersistIdle
    /\ ServerIdle
    /\ DiffIdle
    /\ RetryIdle
    /\ ExtractIdle
    /\ RevealIdle
    /\ ClientIdle
    /\ MongoIdle
    /\ GetIdle
    /\ SessionIdle
    /\ ChunkIdle

\* the page is opened: a new instance with its own ref and state, whose
\* start effect runs after the first render
PageMount(params) ==
    /\ ~pageMounted
    /\ pageMounted' = TRUE
    /\ searchParams' = params
    /\ effectPending' = TRUE
    /\ generationStartedRef' = FALSE
    /\ pageState' = FreshPageState
    /\ fetchStarts' = 0
    /\ effectRuns' = 0
    /\ startRequest' = NoStartRequest
    /\ UNCHANGED <<sessionItems, pageChanges>>
    /\ UNCHANGED nonStartVars

\* the search parameters change: the effect depends on them and runs again
ParamsChange(params) ==
    /\ pageMounted
    /\ pageChanges < MaxPageChanges
    /\ params # searchParams
    /\ searchParams' = params
    /\ effectPending' = TRUE
    /\ pageChanges' = pageChanges + 1
    /\ UNCHANGED <<pageMounted, sessionItems, generationStartedRef, pageState,
                   fetchStarts, effectRuns, startRequest>>
    /\ UNCHANGED nonStartVars

\* another page writes currentPrompt or currentUploadedFiles
SessionChange(session) ==
    /\ pageChanges < MaxPageChanges
    /\ session # sessionItems
    /\ sessionItems' = session
    /\ pageChanges' = pageChanges + 1
    /\ UNCHANGED <<pageMounted, searchParams, effectPending,
                   generationStartedRef, pageState, fetchStarts, effectRuns,
                   startRequest>>
    /\ UNCHANGED nonStartVars

\* the start effect runs, and handleStreamingGenerate with it up to its
\* fetch: a blank prompt is refused before the request is made; an error
\* thrown by the effect takes the page down
StartEffect ==
    /\ pageMounted
    /\ effectPending
    /\ effectPending' = FALSE
    /\ effectRuns' = effectRuns + 1
    /\ LET o == EffectOutcome(generationStartedRef, searchParams, sessionItems)
           withPrompt == IF o.finalPrompt # << >>
                         THEN [pageState EXCEPT !.prompt = o.finalPrompt]
                         ELSE pageState
           withFiles == IF o.setsFiles
                        THEN [withPrompt EXCEPT !.uploadedFiles = o.finalFiles]
                        ELSE withPrompt
       IN  IF o.returned
           THEN UNCHANGED <<pageMounted, generationStartedRef, pageState,
                            fetchStarts, startRequest>>
           ELSE IF o.threw
           THEN /\ pageMounted' = FALSE
                /\ UNCHANGED <<generationStartedRef, pageState, fetchStarts,
                               startRequest>>
           ELSE IF o.start
           THEN /\ generationStartedRef' = TRUE
                /\ IF Trim(o.finalPrompt) = << >>
                   THEN /\ pageState' =
                                [withFiles EXCEPT
                                    !.error = "Please enter a prompt",
                                    !.isGenerating = FALSE]
                        /\ UNCHANGED <<fetchStarts, startRequest>>
                   ELSE /\ pageState' = [withFiles EXCEPT !.error = "",
                                                          !.isGenerating = TRUE]
                        /\ fetchStarts' = fetchStarts + 1
                        /\ startRequest' =
                                [sent |-> TRUE, prompt |-> o.finalPrompt,
                                 uploadedFiles |-> o.finalFiles]
                /\ UNCHANGED pageMounted
           ELSE /\ pageState' = [withFiles EXCEPT
                                    !.error = "No prompt provided",
                                    !.isGenerating = FALSE]
                /\ UNCHANGED <<pageMounted, generationStartedRef, fetchStarts,
                               startRequest>>
    /\ UNCHANGED <<searchParams, sessionItems, pageChanges>>
    /\ UNCHANGED nonStartVars

\* the request of the page ends, with the stream read to its end or with
\* an error
GenerationEnds(failed) ==
    /\ pageMounted
    /\ startRequest.sent
    /\ pageState.isGenerating
    /\ pageState' = [pageState EXCEPT
                        !.error = IF failed THEN "Failed to generate code"
                                  ELSE @,
                        !.isGenerating = FALSE]
    /\ UNCHANGED <<pageMounted, searchParams, sessionItems, effectPending,
                   generationStartedRef, fetchStarts, effectRuns,
                   startRequest, pageChanges>>
    /\ UNCHANGED nonStartVars

\* the page is left
PageUnmount ==
    /\ pageMounted
    /\ pageChanges < MaxPageChanges
    /\ pageMounted' = FALSE
    /\ effectPending' = FALSE
    /\ pageChanges' = pageChanges + 1
    /\ UNCHANGED <<searchParams, sessionItems, generationStartedRef,
                   pageState, fetchStarts, effectRuns, startRequest>>
    /\ UNCHANGED nonStartVars

StartNext ==
    \/ \E params \in StartParams : PageMount(params)
    \/ \E params \in StartParams : ParamsChange(params)
    \/ \E session \in StartSessions : SessionChange(session)
    \/ StartEffect
    \/ \E failed \in BOOLEAN : GenerationEnds(failed)
    \/ PageUnmount

SpecStart == StartInit /\ [][StartNext]_vars

\* C40: since the streaming page was mounted it has started at most one
\* generation request, however often its start effect has run, and a run
\* of the effect that finds the ref set starts none.
C40_StartedOncePerMount ==
    /\ fetchStarts <= 1
    /\ fetchStarts = 1 => (generationStartedRef /\ startRequest.sent)

\* the effect has run again, with another prompt in the search parameters,
\* after the generation it started had ended
C40_Witness ==
    /\ pageMounted
    /\ fetchStarts = 1
    /\ effectRuns >= 2
    /\ ~effectPending
    /\ ~pageState.isGenerating
    /\ startRequest.prompt = <<"a">>
    /\ searchParams.prompt = <<"b">>

====
